---- MODULE Spec2Model ----
(***************************************************************************)
(* Verification model of the AI backend of crm-mvp:                        *)
(*   - ModelManager (apps/ai-backend/models/model_manager.py): the model   *)
(*     catalog, model selection and generate with its fallback chain;      *)
(*   - RuleEngine (apps/ai-backend/rules/rule_engine.py): input rules.     *)
(*                                                                         *)
(* Scores are Python floats in the source.  The model computes them        *)
(* exactly, as integers scaled by 60000 (ScoreUnit), with token costs in   *)
(* units of 1e-7 USD per token and latencies in whole milliseconds.        *)
(***************************************************************************)
EXTENDS Integers, Sequences, FiniteSets, TLC

VARIABLES
    \* ---- ModelManager ----
    catalog,          \* keys of self.models, in dict insertion order
    is_active,        \* self.models[m].is_active
    health_status,    \* self.health_status.get(m, False)
    request_counts,   \* self.request_counts[m]
    response_times,   \* self.response_times[m]
    pc,               \* position of the generate call in flight
    request,          \* the AIRequest of the generate call in flight
    model_to_use,     \* generate's local model_to_use
    fb_index,         \* index in request.fallback_models of the awaited fallback
    calls,            \* provider.generate calls dispatched by this generate call
    errors,           \* exceptions raised by those calls, in order
    result,           \* what generate returned or raised
    started,          \* number of generate calls started
    \* ---- RuleEngine ----
    rule_set,         \* the RuleSet handed to apply_input_rules
    rule_request,     \* the caller's request object
    request_at_call,  \* the value the caller's request had when it was handed over
    tested_on,        \* the request each evaluated condition was tested against
    rule_result,      \* the request apply_input_rules returned
    eval_log,         \* rule ids whose condition was evaluated, in order
    rules_applied,    \* rule ids that fired, in order
    usage_events,     \* usage events handed to db.track_rule_usage
    applied,          \* number of apply_input_rules / apply_output_rules calls made
    response_at_call, \* the value the caller's response had at the first call
    caller_response,  \* the caller's response object
    response_result,  \* the response apply_output_rules returned
    \* ---- RuleEngine._check_rule_condition, called on its own ----
    cond_call,        \* the condition, the phase and the object it was given
    cond_result,      \* what it returned
    \* ---- RuleEngine: rule sets in the store and in the cache ----
    rule_store,       \* rows of the rule_sets table, by rule_set_id
    rule_cache,       \* self.rule_cache
    store_call,       \* the last call: operation, arguments, outcome
    last_created,     \* the rule set of the last create_rule_set that returned
    \* ---- cost of a token usage ----
    cost_call,        \* the last cost computation: function, arguments, cost
    prev_cost_call,   \* the cost computation before it
    \* ---- WorkflowEngine ----
    executions,       \* the WorkflowState of each execute_workflow call, and the
                      \* position of the call
    active_workflows, \* keys of self.active_workflows
    workflow_executions, \* the stored execution record of each execution id
    published,        \* workflow_completed events published, in order
    approvals,        \* the approval requests stored under approval:<execution>:<node>
    route_result,     \* the answer of the last /approve or stop request
    \* ---- ModelManager.generate_stream ----
    stream,           \* the stream being generated: adapter state and counters
    delivered,        \* the chunks generate_stream has yielded to its caller
    \* ---- request ids ----
    clock,            \* int(time.time() * 1000), the clock in milliseconds
    stamped,          \* per generate call: its position and its request_id
    \* ---- RuleEngine.get_rule_set calls that suspend ----
    gets,             \* per get_rule_set call: its position, the row, the result
    \* ---- ModelManager.reload_models, provider call by provider call ----
    reload,           \* the position of the reload and what the providers list
    \* ---- TokenTracker and the /generate route ----
    usage_records,    \* the rows of table token_usage, in insertion order
    usage_cache,      \* TokenTracker.usage_cache: key -> entry
    last_response,    \* the response the /generate route returned last
    report            \* the report get_user_usage returned last

mmVars == <<catalog, is_active, health_status, request_counts, response_times,
            pc, request, model_to_use, fb_index, calls, errors, result, started>>
reVars == <<rule_set, rule_request, request_at_call, tested_on, rule_result,
            eval_log, rules_applied, usage_events, applied,
            response_at_call, caller_response, response_result>>
ccVars == <<cond_call, cond_result>>
rsVars == <<rule_store, rule_cache, store_call, last_created>>
costVars == <<cost_call, prev_cost_call>>
wfVars == <<executions, active_workflows, workflow_executions, published,
           approvals, route_result>>
stVars == <<stream, delivered>>
idVars == <<clock, stamped>>
getVars == <<gets>>
rlVars == <<reload>>
tkVars == <<usage_records, usage_cache, last_response, report>>
otherVars == <<idVars, getVars, rlVars, tkVars>>
restVars == <<ccVars, rsVars, costVars, wfVars, stVars, otherVars>>
vars == <<mmVars, reVars, restVars>>

----------------------------------------------------------------------------
(* Bounds of the model *)

\* generate calls made in one behaviour
MaxRequests == 2
\* length of request.fallback_models
MaxFallbacks == 2

\* "no model" / "no value" (Python None)
None == "None"

----------------------------------------------------------------------------
(* The model universe: ids the providers can list, with the static          *)
(* configuration the providers attach to them.                              *)

ModelIds == {"gpt-4", "llama2", "mistral"}

\* ModelConfig.model_type
model_type(m) == IF m = "gpt-4" THEN "openai" ELSE "ollama"

\* ModelConfig.max_tokens
max_tokens(m) == CASE m = "gpt-4" -> 8192
                   [] m = "llama2" -> 4096
                   [] m = "mistral" -> 8192

\* ModelPricing.pricing_model
pricing_model(m) == IF m = "gpt-4" THEN "per_token" ELSE "free"

\* ModelPricing.input_token_cost, in 1e-7 USD per token (0.03 / 1000)
input_token_cost(m) == IF m = "gpt-4" THEN 300 ELSE 0

\* ModelPricing.output_token_cost, in 1e-7 USD per token (0.06 / 1000)
output_token_cost(m) == IF m = "gpt-4" THEN 600 ELSE 0

\* what provider.get_available_models can return, provider by provider
OpenAIListings == {<<>>, <<"gpt-4">>}
OllamaListings == {<<>>, <<"llama2">>, <<"mistral">>,
                   <<"llama2", "mistral">>, <<"mistral", "llama2">>}

\* processing_time_ms values a response can be stamped with
Latencies == {1000, 6000}

----------------------------------------------------------------------------
(* ModelManager: selection *)

\* one score point, so that every score of the model is an integer
ScoreUnit == 600 * 100

Max(a, b) == IF a >= b THEN a ELSE b

RECURSIVE SumFew(_)
SumFew(s) == IF s = <<>> THEN 0 ELSE Head(s) + SumFew(Tail(s))

RECURSIVE Sum(_)
\* sum(s), ten elements at a time
Sum(s) ==
    IF Len(s) <= 10 THEN SumFew(s)
    ELSE SumFew(SubSeq(s, 1, 10)) + Sum(SubSeq(s, 11, Len(s)))

RECURSIVE Filter(_, _)
\* the elements of sequence s that are in set S, in the order of s
Filter(s, S) == IF s = <<>> THEN <<>>
                ELSE IF Head(s) \in S THEN <<Head(s)>> \o Filter(Tail(s), S)
                ELSE Filter(Tail(s), S)

Range(s) == {s[i] : i \in 1..Len(s)}

\* model_id in self.models
InCatalog(m) == m \in Range(catalog)

\* _get_average_response_time(model_id) > 0
has_average_response_time(m) == Sum(response_times[m]) > 0

\* the response time term of the score: max(0, 50 - avg / 100), or 25
response_time_score(m) ==
    IF has_average_response_time(m)
    THEN Max(0, 50 * ScoreUnit
                - Sum(response_times[m]) * (ScoreUnit \div (100 * Len(response_times[m]))))
    ELSE 25 * ScoreUnit

\* _get_cost_efficiency_score(model_id)
get_cost_efficiency_score(m) ==
    IF ~InCatalog(m) THEN 0
    ELSE IF pricing_model(m) = "free" THEN 30 * ScoreUnit
    ELSE IF pricing_model(m) = "per_token"
         \* avg_cost * 3000, avg_cost = (input + output) / 2 in 1e-7 USD
         THEN Max(0, 30 * ScoreUnit
                     - (input_token_cost(m) + output_token_cost(m))
                       * ((1500 * ScoreUnit) \div 10000000))
    ELSE 15 * ScoreUnit

\* the model type preference term of the score
model_type_score(m) ==
    IF model_type(m) = "anthropic" THEN 10 * ScoreUnit
    ELSE IF model_type(m) = "openai" THEN 8 * ScoreUnit
    ELSE IF model_type(m) = "ollama" THEN 15 * ScoreUnit
    ELSE 0

\* the capability term: request.max_tokens and request.max_tokens <= model max
capability_score(m, req) ==
    IF req.max_tokens # 0 /\ req.max_tokens <= max_tokens(m) THEN 20 * ScoreUnit ELSE 0

\* model_scores[model_id] of _select_best_model
model_score(m, req) ==
    (IF health_status[m] THEN 50 * ScoreUnit ELSE 0)
    + response_time_score(m)
    + get_cost_efficiency_score(m)
    + capability_score(m, req)
    + model_type_score(m)

\* available_models of _select_best_model: healthy and active, in catalog order
available_models ==
    Filter(catalog, {m \in ModelIds : health_status[m] /\ is_active[m]})

RECURSIVE first_max(_, _, _)
\* Python's max(items, key): the first element of s with the greatest score
first_max(s, best, req) ==
    IF s = <<>> THEN best
    ELSE IF model_score(Head(s), req) > model_score(best, req)
         THEN first_max(Tail(s), Head(s), req)
         ELSE first_max(Tail(s), best, req)

\* the preferred_model shortcut of _select_best_model
preferred_available(req) ==
    /\ req.preferred_model # None
    /\ InCatalog(req.preferred_model)
    /\ health_status[req.preferred_model]

\* mutant of select_best_model: the preferred model is not looked at
select_by_score_only(req) ==
    IF available_models = <<>> THEN None
    ELSE first_max(Tail(available_models), Head(available_models), req)

\* _select_best_model(request): a model id, or None
select_best_model(req) ==
    IF preferred_available(req) THEN req.preferred_model
    ELSE IF available_models = <<>> THEN None
    ELSE first_max(Tail(available_models), Head(available_models), req)

----------------------------------------------------------------------------
(* ModelManager: generate *)

\* request.fallback_models: lists of distinct model ids
FallbackLists ==
    {f \in UNION {[1..n -> ModelIds] : n \in 0..MaxFallbacks} :
        \A i, j \in 1..Len(f) : i # j => f[i] # f[j]}

\* the AIRequest fields generate reads
Requests ==
    [preferred_model : ModelIds \cup {None},
     fallback_models : FallbackLists,
     max_tokens : {1000, 8000}]

\* the requests that name no fallback model
RequestsNoFallback == {req \in Requests : req.fallback_models = <<>>}

NoRequest == [preferred_model |-> None, fallback_models |-> <<>>, max_tokens |-> 0]
NoError == [model |-> None, index |-> -1]
NoResult == [kind |-> "none", model_used |-> None, error |-> NoError]

\* the condition under which the fallback loop tries fallback_model
fallback_eligible(fm, primary) ==
    /\ InCatalog(fm)
    /\ fm # primary
    /\ health_status[fm]

\* the indexes of request.fallback_models, from i on, the loop would try now
eligible_from(req, primary, i) ==
    {j \in i..Len(req.fallback_models) :
        fallback_eligible(req.fallback_models[j], primary)}

\* mutant of next_fallback: the list is visited back to front
last_fallback(todo) == CHOOSE x \in todo : \A y \in todo : x >= y

\* the for loop visits request.fallback_models front to back
next_fallback(todo) == CHOOSE x \in todo : \A y \in todo : x <= y

\* the exception the final raise reports, "All models failed. Last error: {str(e)}":
\* e is the exception bound by the outer except clause
reported_error(errs) == errs[1]

\* mutant of exhausted_result: the failure is swallowed, nothing is raised
exhausted_silently(errs) == NoResult

\* generate's final raise, once the fallback list is exhausted
exhausted_result(errs) ==
    [kind |-> "all_failed", model_used |-> None, error |-> reported_error(errs)]

\* the number of response times a primary success retains
RetainedSamples == 100

\* self.response_times[m] after a primary success: append, keep the last 100
record_primary_time(times, t) ==
    LET appended == Append(times, t)
    IN  IF Len(appended) > RetainedSamples
        THEN SubSeq(appended, Len(appended) - RetainedSamples + 1, Len(appended))
        ELSE appended

\* self.response_times[m] after a fallback success: append only
record_fallback_time(times, t) == Append(times, t)

\* the fallback loop from index i on, entered after an attempt has failed:
\* it runs without suspending until it awaits an eligible fallback's
\* provider.generate, or until the list is exhausted and generate raises
fallback_loop(i, errs) ==
    LET todo == eligible_from(request, model_to_use, i)
    IN  IF todo # {}
        THEN /\ pc' = "fallback"
             /\ fb_index' = next_fallback(todo)
             /\ calls' = Append(calls,
                                [model |-> request.fallback_models[next_fallback(todo)],
                                 index |-> next_fallback(todo)])
             /\ result' = result
        ELSE /\ pc' = "done"
             /\ fb_index' = 0
             /\ calls' = calls
             /\ result' = exhausted_result(errs)

\* generate, from its entry to the await of the primary provider.generate
\* (or to the raise when no model is selected); a call entry's index is its
\* place in request.fallback_models, 0 for the primary
generate_start(req) ==
    /\ pc \in {"idle", "done"}
    /\ started' = started + 1
    /\ request' = req
    /\ model_to_use' = select_best_model(req)
    /\ errors' = <<>>
    /\ fb_index' = 0
    /\ IF select_best_model(req) = None
       THEN /\ pc' = "done"
            /\ calls' = <<>>
            /\ result' = [kind |-> "no_models", model_used |-> None, error |-> NoError]
       ELSE /\ pc' = "primary"
            /\ calls' = <<[model |-> select_best_model(req), index |-> 0]>>
            /\ result' = NoResult
    /\ UNCHANGED <<catalog, is_active, health_status, request_counts, response_times>>

\* the primary provider.generate returns a response
primary_succeeds(t) ==
    /\ pc = "primary"
    /\ pc' = "done"
    /\ result' = [kind |-> "response", model_used |-> model_to_use, error |-> NoError]
    /\ request_counts' = [request_counts EXCEPT ![model_to_use] = @ + 1]
    /\ response_times' = [response_times EXCEPT
                            ![model_to_use] = record_primary_time(@, t)]
    /\ UNCHANGED <<catalog, is_active, health_status, request, model_to_use,
                   fb_index, calls, errors, started>>

\* the primary provider.generate raises: the except clause runs the fallback loop
primary_fails ==
    /\ pc = "primary"
    /\ errors' = Append(errors, [model |-> model_to_use, index |-> 0])
    /\ fallback_loop(1, errors')
    /\ UNCHANGED <<catalog, is_active, health_status, request_counts,
                   response_times, request, model_to_use, started>>

\* mutant of fallback_response: the response is stamped with the primary model
fallback_response_as_primary(fm) ==
    [kind |-> "response", model_used |-> model_to_use, error |-> NoError]

\* the response a successful fallback returns: response.model_used = fallback_model
fallback_response(fm) ==
    [kind |-> "response", model_used |-> fm, error |-> NoError]

\* the awaited fallback provider.generate returns a response
fallback_succeeds(t) ==
    /\ pc = "fallback"
    /\ pc' = "done"
    /\ result' = fallback_response(request.fallback_models[fb_index])
    /\ request_counts' = [request_counts EXCEPT
                            ![request.fallback_models[fb_index]] = @ + 1]
    /\ response_times' = [response_times EXCEPT
                            ![request.fallback_models[fb_index]] =
                                record_fallback_time(@, t)]
    /\ UNCHANGED <<catalog, is_active, health_status, request, model_to_use,
                   fb_index, calls, errors, started>>

\* the awaited fallback provider.generate raises: the loop continues
fallback_fails ==
    /\ pc = "fallback"
    /\ errors' = Append(errors, [model |-> request.fallback_models[fb_index],
                                 index |-> fb_index])
    /\ fallback_loop(fb_index + 1, errors')
    /\ UNCHANGED <<catalog, is_active, health_status, request_counts,
                   response_times, request, model_to_use, started>>

----------------------------------------------------------------------------
(* ModelManager: the catalog's environment *)

\* one probe of _check_all_models_health: check_health returned h (or raised)
check_model_health(m, h) ==
    /\ InCatalog(m)
    /\ health_status' = [health_status EXCEPT ![m] = h]
    /\ UNCHANGED <<catalog, is_active, request_counts, response_times, pc, request,
                   model_to_use, fb_index, calls, errors, result, started>>

\* configure_model(model_id, {"is_active": a})
configure_model(m, a) ==
    /\ InCatalog(m)
    /\ is_active' = [is_active EXCEPT ![m] = a]
    /\ UNCHANGED <<catalog, health_status, request_counts, response_times, pc,
                   request, model_to_use, fb_index, calls, errors, result, started>>

----------------------------------------------------------------------------
(* RuleEngine: apply_input_rules                                            *)
(* A text is a sequence of tokens; "\n" is the token NL.  A context dict is *)
(* a sequence of <<key, value>> pairs in insertion order.                   *)

\* rules in one rule set
MaxRules == 3

NL == "NL"
EmptyContext == <<>>

\* CustomRule.priority values
Priorities == {1, 2, 3}

\* the rule bodies the rule sets are built from: rule_type, is_active,
\* condition and action of a CustomRule
RuleBodies == {
    [rule_id |-> "escalate", rule_type |-> "input_filter", is_active |-> TRUE,
     condition |-> [type |-> "contains", target |-> "prompt", value |-> "refund"],
     action |-> [type |-> "add_context", key |-> "escalate", value |-> "true"]],
    [rule_id |-> "enhance", rule_type |-> "prompt_enhancement", is_active |-> TRUE,
     condition |-> [type |-> "context", key |-> "escalate", value |-> "true"],
     action |-> [type |-> "modify_prompt", operation |-> "append", text |-> "urgent"]],
    [rule_id |-> "moderate", rule_type |-> "content_moderation", is_active |-> TRUE,
     condition |-> [type |-> "contains", target |-> "prompt", value |-> "urgent"],
     action |-> [type |-> "block"]],
    [rule_id |-> "economy", rule_type |-> "cost_optimization", is_active |-> TRUE,
     condition |-> [type |-> "length", target |-> "prompt", min_length |-> 0,
                    max_length |-> 2],
     action |-> [type |-> "set_parameter", parameter |-> "max_tokens", value |-> "500"]],
    [rule_id |-> "broken", rule_type |-> "input_filter", is_active |-> TRUE,
     condition |-> [type |-> "contains", target |-> "prompt", value |-> "hi"],
     action |-> [type |-> "set_parameter", parameter |-> "temperature",
                 value |-> "hot"]],
    [rule_id |-> "formatter", rule_type |-> "response_formatting", is_active |-> TRUE,
     condition |-> [type |-> "contains", target |-> "response", value |-> "hi"],
     action |-> [type |-> "format", format |-> "markdown"]],
    [rule_id |-> "dormant", rule_type |-> "input_filter", is_active |-> FALSE,
     condition |-> [type |-> "contains", target |-> "prompt", value |-> "hi"],
     action |-> [type |-> "add_context", key |-> "seen", value |-> "true"]]}

\* a CustomRule: a rule body at a priority
Rules ==
    {[rule_id |-> b.rule_id, rule_type |-> b.rule_type, is_active |-> b.is_active,
      condition |-> b.condition, action |-> b.action, priority |-> p] :
        b \in RuleBodies, p \in Priorities}

\* RuleSet.rules: lists of rules with distinct ids, in any stored order
RuleLists ==
    {l \in UNION {[1..n -> Rules] : n \in 0..MaxRules} :
        \A i, j \in 1..Len(l) : i # j => l[i].rule_id # l[j].rule_id}

RuleSets == [rule_set_id : {"rs1"}, is_active : BOOLEAN, rules : RuleLists]

\* the AIRequest fields the rules read and write
RuleRequests ==
    [prompt : {<<"hi">>, <<"refund", "please">>},
     context : {EmptyContext, <<<<"tier", "gold">>>>},
     max_tokens : {1000},
     temperature : {"0.7"},
     top_p : {"1.0"},
     preferred_model : {None}]

NoRuleSet == [rule_set_id |-> None, is_active |-> FALSE, rules |-> <<>>]
NoRuleRequest == [prompt |-> <<>>, context |-> EmptyContext, max_tokens |-> 0,
                  temperature |-> None, top_p |-> None, preferred_model |-> None]

\* rule types apply_input_rules selects
InputRuleTypes == {"input_filter", "content_moderation", "prompt_enhancement",
                   "cost_optimization"}

RECURSIVE select_rules(_, _)
\* the list comprehension: active rules of the given types, in stored order
select_rules(rules, types) ==
    IF rules = <<>> THEN <<>>
    ELSE IF Head(rules).is_active /\ Head(rules).rule_type \in types
         THEN <<Head(rules)>> \o select_rules(Tail(rules), types)
         ELSE select_rules(Tail(rules), types)

RECURSIVE insert_by_priority(_, _)
\* r placed after every rule of sorted whose priority is not greater
insert_by_priority(sorted, r) ==
    IF sorted = <<>> THEN <<r>>
    ELSE IF Head(sorted).priority <= r.priority
         THEN <<Head(sorted)>> \o insert_by_priority(Tail(sorted), r)
         ELSE <<r>> \o sorted

\* mutant of sort_by_priority: the rules stay in stored order
keep_stored_order(rules) == rules

RECURSIVE sort_by_priority(_)
\* rules.sort(key=lambda r: r.priority): ascending and stable
sort_by_priority(rules) ==
    IF rules = <<>> THEN <<>>
    ELSE insert_by_priority(sort_by_priority(SubSeq(rules, 1, Len(rules) - 1)),
                            rules[Len(rules)])

\* value in text, for a value of one token or the empty string ""
contains(text, value) == value = "" \/ \E i \in 1..Len(text) : text[i] = value

\* the text a condition value of one token, or the empty string "", stands for
as_text(value) == IF value = "" THEN <<>> ELSE <<value>>

\* patterns re.search cannot compile
BadPatterns == {"("}

\* bool(re.search(pattern, text, re.IGNORECASE)) for a pattern that is a
\* literal token or the empty pattern; the texts are lower case
search(pattern, text) == contains(text, pattern)

\* any(word.lower() in text_lower for word in banned_words)
any_banned(words, text) == \E k \in 1..Len(words) : contains(text, words[k])

RECURSIVE dumps(_)
\* json.dumps(context): the keys and values in insertion order
dumps(context) ==
    IF context = <<>> THEN <<>>
    ELSE <<Head(context)[1], Head(context)[2]>> \o dumps(Tail(context))

\* context.get(key), None when absent
context_get(context, key) ==
    IF \E i \in 1..Len(context) : context[i][1] = key
    THEN context[CHOOSE i \in 1..Len(context) : context[i][1] = key][2]
    ELSE None

\* context[key] = value on an insertion-ordered dict
context_set(context, key, value) ==
    IF \E i \in 1..Len(context) : context[i][1] = key
    THEN [i \in 1..Len(context) |->
            IF context[i][1] = key THEN <<key, value>> ELSE context[i]]
    ELSE Append(context, <<key, value>>)

\* _get_text_for_condition, in the input phase (response is None)
get_text_for_condition(condition, req) ==
    IF condition.target = "prompt" THEN req.prompt
    ELSE IF condition.target = "context" /\ req.context # EmptyContext
         THEN dumps(req.context)
    ELSE <<>>

\* _check_rule_condition(rule, request=req), in the input phase
check_rule_condition(rule, req) ==
    LET c == rule.condition
    IN  CASE c.type = "contains" -> contains(get_text_for_condition(c, req), c.value)
          [] c.type = "matches" ->
                /\ c.pattern \notin BadPatterns
                /\ search(c.pattern, get_text_for_condition(c, req))
          [] c.type = "equals" -> get_text_for_condition(c, req) = as_text(c.value)
          [] c.type = "length" ->
                /\ c.min_length <= Len(get_text_for_condition(c, req))
                /\ Len(get_text_for_condition(c, req)) <= c.max_length
          [] c.type = "context" ->
                /\ req.context # EmptyContext
                /\ context_get(req.context, c.key) = c.value
          [] c.type = "confidence" -> FALSE
          [] c.type = "banned_words" ->
                any_banned(c.words, get_text_for_condition(c, req))
          [] OTHER -> FALSE

\* _get_text_for_condition, in the output phase (request is None)
get_text_for_output_condition(condition, resp) ==
    IF condition.target = "response" THEN resp.content ELSE <<>>

\* _check_rule_condition(rule, response=resp), in the output phase; a
\* confidence_score is <<>> for None and <<score>> otherwise
check_output_rule_condition(rule, resp) ==
    LET c == rule.condition
    IN  CASE c.type = "contains" ->
                contains(get_text_for_output_condition(c, resp), c.value)
          [] c.type = "matches" ->
                /\ c.pattern \notin BadPatterns
                /\ search(c.pattern, get_text_for_output_condition(c, resp))
          [] c.type = "equals" ->
                get_text_for_output_condition(c, resp) = as_text(c.value)
          [] c.type = "length" ->
                /\ c.min_length <= Len(get_text_for_output_condition(c, resp))
                /\ Len(get_text_for_output_condition(c, resp)) <= c.max_length
          [] c.type = "context" -> FALSE
          [] c.type = "confidence" ->
                /\ resp.confidence_score # <<>>
                /\ resp.confidence_score[1] >= c.min_confidence
          [] c.type = "banned_words" ->
                any_banned(c.words, get_text_for_output_condition(c, resp))
          [] OTHER -> FALSE

\* whether _apply_input_rule_action raises: float() or int() of a non-number
action_raises(rule) ==
    /\ rule.action.type = "set_parameter"
    /\ rule.action.parameter \in {"temperature", "max_tokens", "top_p"}
    /\ rule.action.value \notin {"500", "0.2"}

\* int(param_value) for the values the rule bodies use
to_int(v) == IF v = "500" THEN 500 ELSE 0

\* the fields of the request _apply_input_rule_action returns; the copy is
\* shallow, so its context is the dict object of the request it was given
\* unless the action assigns a fresh dict
action_request(rule, req) ==
    LET a == rule.action
    IN  CASE a.type = "modify_prompt" ->
                IF a.operation = "append"
                THEN [req EXCEPT !.prompt = req.prompt \o <<NL, a.text>>]
                ELSE IF a.operation = "prepend"
                THEN [req EXCEPT !.prompt = <<a.text, NL>> \o req.prompt]
                ELSE req
          [] a.type = "set_parameter" ->
                IF a.parameter = "max_tokens"
                THEN [req EXCEPT !.max_tokens = to_int(a.value)]
                ELSE IF a.parameter = "temperature"
                THEN [req EXCEPT !.temperature = a.value]
                ELSE IF a.parameter = "top_p"
                THEN [req EXCEPT !.top_p = a.value]
                ELSE IF a.parameter = "preferred_model"
                THEN [req EXCEPT !.preferred_model = a.value]
                ELSE req
          [] a.type = "add_context" ->
                [req EXCEPT !.context = context_set(req.context, a.key, a.value)]
          [] a.type = "block" ->
                [req EXCEPT !.context =
                    context_set(req.context, "_blocked_by_rule", rule.rule_id)]
          [] OTHER -> req

\* whether the action writes into the context dict of the request it was given
\* (a non-empty dict is kept by the shallow copy and written in place)
action_writes_context(rule, req) ==
    /\ rule.action.type \in {"add_context", "block"}
    /\ req.context # EmptyContext

\* whether the action gives the returned request a dict object of its own
action_fresh_context(rule, req) ==
    /\ rule.action.type \in {"add_context", "block"}
    /\ req.context = EmptyContext

\* mutant of apply_one_rule: the rule is tested against, and applied to, the
\* request as the caller handed it over
apply_one_rule_to_original(rule, st) ==
    LET fired == check_rule_condition(rule, st.entry) /\ ~action_raises(rule)
    IN  [req |-> IF fired THEN action_request(rule, st.entry) ELSE st.req,
         original |-> st.original,
         entry |-> st.entry,
         shared |-> st.shared,
         eval_log |-> Append(st.eval_log, rule.rule_id),
         tested_on |-> Append(st.tested_on, st.entry),
         rules_applied |-> IF fired THEN Append(st.rules_applied, rule.rule_id)
                           ELSE st.rules_applied]

\* mutant of apply_one_rule: a rule whose action raised is recorded as applied
apply_one_rule_recording_failure(rule, st) ==
    LET matched == check_rule_condition(rule, st.req)
        fired == matched /\ ~action_raises(rule)
        next_req == action_request(rule, st.req)
    IN  [req |-> IF fired THEN next_req ELSE st.req,
         original |-> IF fired /\ st.shared /\ action_writes_context(rule, st.req)
                      THEN [st.original EXCEPT !.context = next_req.context]
                      ELSE st.original,
         entry |-> st.entry,
         shared |-> st.shared /\ ~(fired /\ action_fresh_context(rule, st.req)),
         eval_log |-> Append(st.eval_log, rule.rule_id),
         tested_on |-> Append(st.tested_on, st.req),
         rules_applied |-> IF matched THEN Append(st.rules_applied, rule.rule_id)
                           ELSE st.rules_applied]

\* one turn of the for loop over the sorted rules.  st.req is
\* modified_request, st.original the caller's object, st.entry the value the
\* caller's object had at the call, st.shared whether modified_request and
\* the caller's object hold the same context dict object
apply_one_rule(rule, st) ==
    LET fired == check_rule_condition(rule, st.req) /\ ~action_raises(rule)
        next_req == action_request(rule, st.req)
    IN  [req |-> IF fired THEN next_req ELSE st.req,
         original |-> IF fired /\ st.shared /\ action_writes_context(rule, st.req)
                      THEN [st.original EXCEPT !.context = next_req.context]
                      ELSE st.original,
         entry |-> st.entry,
         shared |-> st.shared /\ ~(fired /\ action_fresh_context(rule, st.req)),
         eval_log |-> Append(st.eval_log, rule.rule_id),
         tested_on |-> Append(st.tested_on, st.req),
         rules_applied |-> IF fired THEN Append(st.rules_applied, rule.rule_id)
                           ELSE st.rules_applied]

RECURSIVE apply_rules(_, _)
\* the for loop of apply_input_rules
apply_rules(rules, st) ==
    IF rules = <<>> THEN st
    ELSE apply_rules(Tail(rules), apply_one_rule(Head(rules), st))

\* mutant of track_rule_usage: one usage event per rule that fired
track_each_rule(events, rule_set_id, fired, phase) ==
    events \o [i \in 1..Len(fired) |->
                [rule_set_id |-> rule_set_id, rules_applied |-> <<fired[i]>>,
                 phase |-> phase]]

\* _track_rule_usage: the usage_data record handed to db.track_rule_usage
track_rule_usage(events, rule_set_id, fired, phase) ==
    Append(events, [rule_set_id |-> rule_set_id, rules_applied |-> fired,
                    phase |-> phase])

\* apply_input_rules(request, rule_set), with the _track_rule_usage call it ends in
apply_input_rules(req, rs) ==
    LET start == [req |-> req, original |-> req, entry |-> req, shared |-> TRUE,
                  eval_log |-> <<>>, tested_on |-> <<>>, rules_applied |-> <<>>]
        end == IF rs.is_active
               THEN apply_rules(sort_by_priority(select_rules(rs.rules, InputRuleTypes)),
                                start)
               ELSE start
    IN  /\ rule_set' = rs
        /\ rule_request' = end.original
        /\ request_at_call' = req
        /\ tested_on' = end.tested_on
        /\ rule_result' = end.req
        /\ eval_log' = end.eval_log
        /\ rules_applied' = end.rules_applied
        /\ usage_events' = IF end.rules_applied # <<>>
                           THEN track_rule_usage(usage_events, rs.rule_set_id,
                                                 end.rules_applied, "input")
                           ELSE usage_events
        /\ applied' = 1
        /\ UNCHANGED <<response_at_call, caller_response, response_result>>

----------------------------------------------------------------------------
(* RuleEngine: apply_output_rules *)

\* the AIResponse fields the rules read and write; a confidence_score is <<>>
\* for None and <<score>>, in tenths, otherwise
Responses ==
    [content : {<<"hi">>, <<"damn", "hi">>},
     confidence_score : {<<>>, <<9>>},
     rules_applied : {<<>>, <<"earlier">>}]

NoResponse == [content |-> <<>>, confidence_score |-> <<>>, rules_applied |-> <<>>]

\* the rule bodies the rule sets handed to apply_output_rules are built from
OutputRuleBodies == {
    [rule_id |-> "redact", rule_type |-> "output_filter", is_active |-> TRUE,
     condition |-> [type |-> "contains", target |-> "response", value |-> "damn"],
     action |-> [type |-> "filter", banned_words |-> <<"damn">>,
                 replacement |-> "[FILTERED]"]],
    [rule_id |-> "heading", rule_type |-> "response_formatting", is_active |-> TRUE,
     condition |-> [type |-> "length", target |-> "response", min_length |-> 2,
                    max_length |-> 5],
     action |-> [type |-> "format", format |-> "markdown"]],
    [rule_id |-> "sign", rule_type |-> "output_filter", is_active |-> TRUE,
     condition |-> [type |-> "confidence", min_confidence |-> 5],
     action |-> [type |-> "modify_content", operation |-> "append",
                 text |-> "regards"]],
    [rule_id |-> "policy", rule_type |-> "content_moderation", is_active |-> TRUE,
     condition |-> [type |-> "banned_words", target |-> "response",
                    words |-> <<"[FILTERED]">>],
     action |-> [type |-> "block", message |-> "Content blocked by content policy"]],
    [rule_id |-> "escalate", rule_type |-> "input_filter", is_active |-> TRUE,
     condition |-> [type |-> "contains", target |-> "response", value |-> "hi"],
     action |-> [type |-> "add_context", key |-> "escalate", value |-> "true"]],
    [rule_id |-> "dormant", rule_type |-> "output_filter", is_active |-> FALSE,
     condition |-> [type |-> "contains", target |-> "response", value |-> "hi"],
     action |-> [type |-> "block", message |-> "Content blocked by content policy"]]}

\* CustomRule.priority values of the output rules
OutputPriorities == {1, 2}

OutputRules ==
    {[rule_id |-> b.rule_id, rule_type |-> b.rule_type, is_active |-> b.is_active,
      condition |-> b.condition, action |-> b.action, priority |-> p] :
        b \in OutputRuleBodies, p \in OutputPriorities}

OutputRuleLists ==
    {l \in UNION {[1..n -> OutputRules] : n \in 0..MaxRules} :
        \A i, j \in 1..Len(l) : i # j => l[i].rule_id # l[j].rule_id}

OutputRuleSets == [rule_set_id : {"rs1"}, is_active : BOOLEAN, rules : OutputRuleLists]

\* rule types apply_output_rules selects
OutputRuleTypes == {"output_filter", "content_moderation", "response_formatting"}

RECURSIVE strip(_)
\* content.strip(): leading and trailing newlines removed
strip(text) ==
    IF text = <<>> THEN <<>>
    ELSE IF Head(text) = NL THEN strip(Tail(text))
    ELSE IF text[Len(text)] = NL THEN strip(SubSeq(text, 1, Len(text) - 1))
    ELSE text

\* the heading line the markdown format puts first; the only token that
\* starts with "#"
Heading == "## Response"

\* re.sub(re.escape(word), replacement, content) for every banned word
filter_words(content, words, replacement) ==
    [i \in 1..Len(content) |->
        IF \E k \in 1..Len(words) : words[k] = content[i]
        THEN replacement ELSE content[i]]

\* the fields of the response _apply_output_rule_action returns
output_action_response(rule, resp) ==
    LET a == rule.action
    IN  CASE a.type = "modify_content" ->
                IF a.operation = "append"
                THEN [resp EXCEPT !.content = resp.content \o <<NL, a.text>>]
                ELSE IF a.operation = "prepend"
                THEN [resp EXCEPT !.content = <<a.text, NL>> \o resp.content]
                ELSE resp
          [] a.type = "format" ->
                IF a.format = "markdown"
                THEN IF strip(resp.content) # <<>> /\ Head(strip(resp.content)) = Heading
                     THEN resp
                     ELSE [resp EXCEPT !.content =
                              <<Heading, NL, NL>> \o strip(resp.content)]
                ELSE resp
          [] a.type = "filter" ->
                [resp EXCEPT !.content =
                    filter_words(resp.content, a.banned_words, a.replacement)]
          [] a.type = "block" -> [resp EXCEPT !.content = <<a.message>>]
          [] OTHER -> resp

\* one turn of the for loop of apply_output_rules; st.resp is modified_response
apply_one_output_rule(rule, st) ==
    LET fired == check_output_rule_condition(rule, st.resp)
    IN  [resp |-> IF fired THEN output_action_response(rule, st.resp) ELSE st.resp,
         eval_log |-> Append(st.eval_log, rule.rule_id),
         rules_applied |-> IF fired THEN Append(st.rules_applied, rule.rule_id)
                           ELSE st.rules_applied]

RECURSIVE apply_output_loop(_, _)
\* the for loop of apply_output_rules
apply_output_loop(rules, st) ==
    IF rules = <<>> THEN st
    ELSE apply_output_loop(Tail(rules), apply_one_output_rule(Head(rules), st))

\* mutant of extend_rules_applied: the rule set's id is recorded on every
\* response that went through an active rule set
extend_with_rule_set(resp, fired) ==
    [resp EXCEPT !.rules_applied = (@ \o fired) \o <<"rs1">>]

\* modified_response.rules_applied.extend(rules_applied), on an empty list
\* that was first replaced by a fresh one
extend_rules_applied(resp, fired) ==
    [resp EXCEPT !.rules_applied = @ \o fired]

\* what the call leaves in the caller's object: it is modified_response itself
\* when no rule fired; otherwise modified_response is a shallow copy that
\* shares the caller's rules_applied list unless that list was empty
output_caller_response(resp, fired) ==
    IF fired = <<>> \/ resp.rules_applied # <<>>
    THEN extend_rules_applied(resp, fired)
    ELSE resp

\* apply_output_rules(response, rule_set), with the _track_rule_usage call it
\* ends in; first tells the call that starts from the caller's response
apply_output_rules(resp, rs, first) ==
    LET start == [resp |-> resp, eval_log |-> <<>>, rules_applied |-> <<>>]
        end == IF rs.is_active
               THEN apply_output_loop(
                        sort_by_priority(select_rules(rs.rules, OutputRuleTypes)), start)
               ELSE start
    IN  /\ rule_set' = rs
        /\ response_at_call' = IF first THEN resp ELSE response_at_call
        /\ caller_response' = IF rs.is_active
                              THEN output_caller_response(resp, end.rules_applied)
                              ELSE resp
        /\ response_result' = IF rs.is_active
                              THEN extend_rules_applied(end.resp, end.rules_applied)
                              ELSE resp
        /\ eval_log' = end.eval_log
        /\ rules_applied' = end.rules_applied
        /\ usage_events' = IF end.rules_applied # <<>>
                           THEN track_rule_usage(usage_events, rs.rule_set_id,
                                                 end.rules_applied, "output")
                           ELSE usage_events
        /\ applied' = applied + 1
        /\ UNCHANGED <<rule_request, request_at_call, tested_on, rule_result>>

----------------------------------------------------------------------------
(* RuleEngine._check_rule_condition on any condition, in either phase *)

ConditionTypes == {"contains", "matches", "equals", "length", "context",
                   "confidence", "banned_words", "sentiment"}

ConditionTargets == {"prompt", "response", "context"}

\* condition dicts with every key the checks read
Conditions ==
    {[type |-> t, target |-> g, value |-> v, pattern |-> v, words |-> <<v>>,
      key |-> "tier", min_length |-> n, max_length |-> 5, min_confidence |-> 5] :
        t \in ConditionTypes, g \in ConditionTargets, v \in {"", "hi", "("},
        n \in {0, 1}}

NoCondition == [type |-> None, target |-> None, value |-> "", pattern |-> "",
                words |-> <<>>, key |-> "", min_length |-> 0, max_length |-> 0,
                min_confidence |-> 0]

NoCall == [phase |-> None, condition |-> NoCondition, request |-> NoRuleRequest,
           response |-> NoResponse]

\* await self._check_rule_condition(rule, request=req)
check_input_condition(c, req) ==
    /\ cond_call' = [phase |-> "input", condition |-> c, request |-> req,
                     response |-> NoResponse]
    /\ cond_result' = IF check_rule_condition([condition |-> c], req)
                      THEN "True" ELSE "False"

\* await self._check_rule_condition(rule, response=resp)
check_output_condition(c, resp) ==
    /\ cond_call' = [phase |-> "output", condition |-> c, request |-> NoRuleRequest,
                     response |-> resp]
    /\ cond_result' = IF check_output_rule_condition([condition |-> c], resp)
                      THEN "True" ELSE "False"

----------------------------------------------------------------------------
(* RuleEngine: create, update, get and delete of rule sets.                  *)
(* An optional value is <<>> for None and <<v>> otherwise; rule sets are     *)
(* compared without their timestamps.                                        *)

\* rules in one stored rule set
MaxStoredRules == 1

StoreIds == {"rs1"}

\* rules a client can send: well-formed ones, and ones _validate_rule rejects
StoreRules == {
    [rule_id |-> "ok_filter", rule_type |-> "input_filter",
     condition |-> [type |-> "contains", target |-> "prompt", value |-> "hi"],
     action |-> [type |-> "block"]],
    [rule_id |-> "off_list", rule_type |-> "input_filter",
     condition |-> [type |-> "confidence", min_confidence |-> 5],
     action |-> [type |-> "block"]],
    [rule_id |-> "no_condition_type", rule_type |-> "output_filter",
     condition |-> [target |-> "response", value |-> "hi"],
     action |-> [type |-> "block"]],
    [rule_id |-> "no_action_type", rule_type |-> "content_moderation",
     condition |-> [type |-> "banned_words", target |-> "prompt", words |-> <<"damn">>],
     action |-> [message |-> "blocked"]],
    [rule_id |-> "free_form", rule_type |-> "prompt_enhancement",
     condition |-> [type |-> "sentiment", target |-> "prompt"],
     action |-> [type |-> "modify_prompt", operation |-> "append", text |-> "please"]]}

StoreRuleLists ==
    {l \in UNION {[1..n -> StoreRules] : n \in 0..MaxStoredRules} :
        \A i, j \in 1..Len(l) : i # j => l[i].rule_id # l[j].rule_id}

\* the RuleSet objects a client can send
StoreRuleSets ==
    [rule_set_id : StoreIds, rules : StoreRuleLists, is_active : BOOLEAN,
     applies_to_models : {<<>>, << <<>> >>, << <<"gpt-4">> >>},
     usage_count : {0}]

NoStoredRuleSet == [rule_set_id |-> None, rules |-> <<>>, is_active |-> FALSE,
                    applies_to_models |-> <<>>, usage_count |-> 0]

\* valid_conditions of _validate_rule_type_specific, for the rule types that
\* have a list
valid_conditions(rule_type) ==
    CASE rule_type = "input_filter" ->
            {"contains", "matches", "equals", "length", "context"}
      [] rule_type = "output_filter" ->
            {"contains", "matches", "equals", "length", "confidence"}
      [] rule_type = "content_moderation" ->
            {"contains", "matches", "banned_words", "sentiment"}

\* mutant of validate_rule: every rule passes
validate_nothing(rule) == TRUE

\* _validate_rule with _validate_rule_type_specific: TRUE when neither raises
validate_rule(rule) ==
    /\ DOMAIN rule.condition # {}
    /\ DOMAIN rule.action # {}
    /\ "type" \in DOMAIN rule.condition
    /\ "type" \in DOMAIN rule.action
    /\ rule.rule_type \in {"input_filter", "output_filter", "content_moderation"}
            => rule.condition.type \in valid_conditions(rule.rule_type)

\* rule.dict(): the fields of the rule, its created_at and updated_at
\* datetime objects among them
rule_dict(rule) ==
    [rule_id |-> rule.rule_id, rule_type |-> rule.rule_type,
     condition |-> rule.condition, action |-> rule.action,
     created_at |-> "datetime", updated_at |-> "datetime"]

\* whether json.dumps(rule_set_data["rules"]) returns: it raises TypeError on
\* a datetime object
json_serializable(data) ==
    \A i \in 1..Len(data) :
        /\ data[i].created_at # "datetime"
        /\ data[i].updated_at # "datetime"

\* rule_set_data["rules"]: [rule.dict() for rule in rule_set.rules]
rules_data(rs) == [i \in 1..Len(rs.rules) |-> rule_dict(rs.rules[i])]

\* json.dumps(applies_to_models) if applies_to_models else None
applies_to_models_column(applies) ==
    IF applies = <<>> \/ applies = << <<>> >> THEN <<>> ELSE applies

\* the row INSERT INTO rule_sets writes; usage_count takes the column default
insert_row(rs) ==
    [rule_set_id |-> rs.rule_set_id, rules |-> rules_data(rs),
     is_active |-> rs.is_active,
     applies_to_models |-> applies_to_models_column(rs.applies_to_models),
     usage_count |-> 0]

\* the row UPDATE rule_sets leaves
update_row(row, rs) ==
    [row EXCEPT !.rules = rules_data(rs), !.is_active = rs.is_active,
                !.applies_to_models = applies_to_models_column(rs.applies_to_models)]

\* CustomRule(**rule_data)
deserialize_rule(rule_data) ==
    [rule_id |-> rule_data.rule_id, rule_type |-> rule_data.rule_type,
     condition |-> rule_data.condition, action |-> rule_data.action]

\* _deserialize_rule_set on the dict db.get_rule_set builds from the row
deserialize_rule_set(row) ==
    [rule_set_id |-> row.rule_set_id,
     rules |-> [i \in 1..Len(row.rules) |-> deserialize_rule(row.rules[i])],
     is_active |-> row.is_active,
     applies_to_models |-> row.applies_to_models,
     usage_count |-> row.usage_count]

\* create_rule_set(rule_set); the INSERT fails on a rule_set_id the table holds
create_rule_set(rs) ==
    LET id == rs.rule_set_id
        outcome ==
            IF \E i \in 1..Len(rs.rules) : ~validate_rule(rs.rules[i])
            THEN "ValueError"
            ELSE IF ~json_serializable(rules_data(rs)) THEN "TypeError"
            ELSE IF rule_store[id] # <<>> THEN "UniqueViolationError"
            ELSE "returned"
    IN  /\ store_call' = [op |-> "create_rule_set", rule_set_id |-> id,
                          rule_set |-> rs, outcome |-> outcome,
                          returned |-> IF outcome = "returned" THEN <<rs>> ELSE <<>>]
        /\ rule_store' = IF outcome = "returned"
                         THEN [rule_store EXCEPT ![id] = <<insert_row(rs)>>]
                         ELSE rule_store
        /\ rule_cache' = IF outcome = "returned"
                         THEN [rule_cache EXCEPT ![id] = <<rs>>]
                         ELSE rule_cache
        /\ last_created' = IF outcome = "returned" THEN <<rs>> ELSE last_created

\* update_rule_set(rule_set_id, rule_set); the UPDATE changes nothing when no
\* row has the id
update_rule_set(id, rs) ==
    LET outcome ==
            IF \E i \in 1..Len(rs.rules) : ~validate_rule(rs.rules[i])
            THEN "ValueError"
            ELSE IF ~json_serializable(rules_data(rs)) THEN "TypeError"
            ELSE "returned"
    IN  /\ store_call' = [op |-> "update_rule_set", rule_set_id |-> id,
                          rule_set |-> rs, outcome |-> outcome,
                          returned |-> IF outcome = "returned" THEN <<rs>> ELSE <<>>]
        /\ rule_store' = IF outcome = "returned" /\ rule_store[id] # <<>>
                         THEN [rule_store EXCEPT
                                  ![id] = <<update_row(rule_store[id][1], rs)>>]
                         ELSE rule_store
        /\ rule_cache' = IF outcome = "returned"
                         THEN [rule_cache EXCEPT ![id] = <<rs>>]
                         ELSE rule_cache
        /\ last_created' = IF outcome = "returned" THEN <<>> ELSE last_created

\* what get_rule_set returns: the cached object, else the deserialized row,
\* else None
get_rule_set_result(id) ==
    IF rule_cache[id] # <<>> THEN rule_cache[id]
    ELSE IF rule_store[id] # <<>> THEN <<deserialize_rule_set(rule_store[id][1])>>
    ELSE <<>>

\* get_rule_set(rule_set_id)
get_rule_set(id) ==
    /\ store_call' = [op |-> "get_rule_set", rule_set_id |-> id,
                      rule_set |-> NoStoredRuleSet, outcome |-> "returned",
                      returned |-> get_rule_set_result(id)]
    /\ rule_cache' = [rule_cache EXCEPT ![id] = get_rule_set_result(id)]
    /\ UNCHANGED <<rule_store, last_created>>

\* delete_rule_set(rule_set_id)
delete_rule_set(id) ==
    /\ store_call' = [op |-> "delete_rule_set", rule_set_id |-> id,
                      rule_set |-> NoStoredRuleSet, outcome |-> "returned",
                      returned |-> <<>>]
    /\ rule_store' = [rule_store EXCEPT ![id] = <<>>]
    /\ rule_cache' = [rule_cache EXCEPT ![id] = <<>>]
    /\ last_created' = <<>>

\* clear_cache(), and a restart of the process: the cache starts empty
clear_cache ==
    /\ store_call' = [op |-> "clear_cache", rule_set_id |-> None,
                      rule_set |-> NoStoredRuleSet, outcome |-> "returned",
                      returned |-> <<>>]
    /\ rule_cache' = [id \in StoreIds |-> <<>>]
    /\ UNCHANGED <<rule_store, last_created>>

----------------------------------------------------------------------------
(* get_rule_set calls that run beside other calls: a call that misses the   *)
(* cache is suspended at "await self.db.get_rule_set" and writes the cache   *)
(* when it is resumed.                                                       *)

\* get_rule_set calls of one behaviour
MaxGets == 2

GetIds == 1..MaxGets

\* a get_rule_set call: at is "none" before the call, "reading" while the
\* query is on its way, "fetched" when the store has answered with row and the
\* call waits to be resumed, "returned" at the end; after_delete tells
\* whether the call began when the last change of its id was a completed
\* delete_rule_set
NoGet == [at |-> "none", rule_set_id |-> None, row |-> <<>>, returned |-> <<>>,
          after_delete |-> FALSE]

\* get_rule_set up to its first suspension: a cached rule set is returned at
\* once, otherwise the query is sent
get_rule_set_begins(g, id) ==
    LET after == store_call.op = "delete_rule_set" /\ store_call.rule_set_id = id
    IN  /\ gets[g].at = "none"
        /\ gets' = [gets EXCEPT ![g] =
                IF rule_cache[id] # <<>>
                THEN [NoGet EXCEPT !.at = "returned", !.rule_set_id = id,
                                   !.returned = rule_cache[id],
                                   !.after_delete = after]
                ELSE [NoGet EXCEPT !.at = "reading", !.rule_set_id = id,
                                   !.after_delete = after]]
        /\ UNCHANGED rsVars

\* the store runs the SELECT of db.get_rule_set
get_rule_set_fetches(g) ==
    /\ gets[g].at = "reading"
    /\ gets' = [gets EXCEPT ![g].at = "fetched",
                            ![g].row = rule_store[gets[g].rule_set_id]]
    /\ UNCHANGED rsVars

\* mutant of get_rule_set_resumes: the rule set read is returned without
\* being cached
get_rule_set_uncached(g) ==
    LET x == gets[g]
        found == IF x.row = <<>> THEN <<>> ELSE <<deserialize_rule_set(x.row[1])>>
    IN  /\ x.at = "fetched"
        /\ gets' = [gets EXCEPT ![g].at = "returned", ![g].returned = found]
        /\ UNCHANGED rsVars

\* get_rule_set is resumed with the row: None when there is none, otherwise
\* the rule set is deserialized, cached and returned
get_rule_set_resumes(g) ==
    LET x == gets[g]
        found == IF x.row = <<>> THEN <<>> ELSE <<deserialize_rule_set(x.row[1])>>
    IN  /\ x.at = "fetched"
        /\ gets' = [gets EXCEPT ![g].at = "returned", ![g].returned = found]
        /\ rule_cache' = IF found = <<>> THEN rule_cache
                         ELSE [rule_cache EXCEPT ![x.rule_set_id] = found]
        /\ UNCHANGED <<rule_store, store_call, last_created>>

----------------------------------------------------------------------------
(* Cost of a token usage: ModelManager._calculate_cost and                   *)
(* TokenTracker.calculate_pricing.  Costs are in units of 1e-7 USD.          *)

\* largest input and output token count of a usage
MaxTokens == 3

TokenCounts == 0..MaxTokens

\* ModelPricing.request_cost
request_cost(m) == 0

\* TokenTracker._get_model_config: "input_token_cost": 0.001
tracker_input_token_cost == 10000
\* TokenTracker._get_model_config: "output_token_cost": 0.002
tracker_output_token_cost == 20000

NoCostCall == [fn |-> None, model_id |-> None, input_tokens |-> 0,
               output_tokens |-> 0, cost |-> 0]

\* mutant of per_token_cost: every token is charged the input price
total_tokens_cost(input_tokens, output_tokens, input_cost, output_cost) ==
    (input_tokens + output_tokens) * input_cost

\* input_tokens * input_token_cost + output_tokens * output_token_cost
per_token_cost(input_tokens, output_tokens, input_cost, output_cost) ==
    input_tokens * input_cost + output_tokens * output_cost

\* what _calculate_cost returns
model_cost(m, input_tokens, output_tokens) ==
    IF ~InCatalog(m) THEN 0
    ELSE IF pricing_model(m) = "free" THEN 0
    ELSE IF pricing_model(m) = "per_token"
         THEN per_token_cost(input_tokens, output_tokens,
                             input_token_cost(m), output_token_cost(m))
    ELSE IF pricing_model(m) = "per_request" THEN request_cost(m)
    ELSE 0

\* ModelManager._calculate_cost(model_id, token_usage)
calculate_cost(m, input_tokens, output_tokens) ==
    /\ prev_cost_call' = cost_call
    /\ cost_call' = [fn |-> "_calculate_cost", model_id |-> m,
                     input_tokens |-> input_tokens, output_tokens |-> output_tokens,
                     cost |-> model_cost(m, input_tokens, output_tokens)]

\* TokenTracker.calculate_pricing(model_id, input_tokens, output_tokens): its
\* estimated_cost, under the per_token pricing _get_model_config returns for
\* every model id
calculate_pricing(m, input_tokens, output_tokens) ==
    /\ prev_cost_call' = cost_call
    /\ cost_call' = [fn |-> "calculate_pricing", model_id |-> m,
                     input_tokens |-> input_tokens, output_tokens |-> output_tokens,
                     cost |-> per_token_cost(input_tokens, output_tokens,
                                             tracker_input_token_cost,
                                             tracker_output_token_cost)]

----------------------------------------------------------------------------
(* TokenTracker.track_usage and get_user_usage, and the /generate route     *)
(* that records the usage of a response.  All calls of a behaviour fall on   *)
(* one day; costs are in units of 1e-7 USD.                                  *)

\* rows of table token_usage
MaxRecords == 2

\* request.user_id
RequestUsers == {None, "u1"}

\* the days argument of get_user_usage
ReportDays == {"30"}

\* f"usage:{user_id}:{datetime.utcnow().date()}"
usage_key(u) == <<"usage", u, "today">>

\* f"user_usage:{user_id}:{days}:{start_date.date()}"
user_usage_key(u, days) == <<"user_usage", u, days, "start">>

\* the keys TokenTracker reads, writes or deletes
CacheKeys ==
    {usage_key(u) : u \in {"anonymous", "u1"}}
        \cup {user_usage_key(u, d) : u \in {"anonymous", "u1"}, d \in ReportDays}

NoGenerated == [model_used |-> None, input_tokens |-> 0, output_tokens |-> 0,
               estimated_cost |-> 0, record |-> 0]
NoReport == [user_id |-> None, days |-> None, total_requests |-> 0,
             total_cost |-> 0, stored |-> 0]

\* TokenUsage.estimated_cost of the object the provider built: the field
\* default, since neither provider sets it
token_usage_estimated_cost == 0

\* mutant of usage_data: the record carries the cost of the response
usage_data_with_response_cost(m, input_tokens, output_tokens, u) ==
    [model_id |-> m, user_id |-> u, input_tokens |-> input_tokens,
     output_tokens |-> output_tokens,
     estimated_cost |-> model_cost(m, input_tokens, output_tokens)]

\* usage_data of track_usage(model_id, token_usage, user_id)
usage_data(m, input_tokens, output_tokens, u) ==
    [model_id |-> m, user_id |-> u, input_tokens |-> input_tokens,
     output_tokens |-> output_tokens,
     estimated_cost |-> token_usage_estimated_cost]

\* the cache after track_usage: the entry under usage_key is deleted
invalidated(cache, u) == [cache EXCEPT ![usage_key(u)] = <<>>]

\* track_usage(model_id, token_usage, user_id): the record is inserted and
\* the cache entry of the user is deleted
track_usage(m, input_tokens, output_tokens, u) ==
    /\ usage_records' = Append(usage_records,
                               usage_data(m, input_tokens, output_tokens, u))
    /\ usage_cache' = invalidated(usage_cache, u)

\* the /generate route without rule set: the model manager's response, with
\* response.estimated_cost from _calculate_cost, is returned and its usage is
\* tracked by the background task
generate_response(u, m, input_tokens, output_tokens) ==
    /\ Len(usage_records) < MaxRecords
    /\ InCatalog(m)
    /\ last_response' = [model_used |-> m, input_tokens |-> input_tokens,
                         output_tokens |-> output_tokens,
                         estimated_cost |-> model_cost(m, input_tokens, output_tokens),
                         record |-> Len(usage_records) + 1]
    /\ track_usage(m, input_tokens, output_tokens,
                   IF u = None THEN "anonymous" ELSE u)
    /\ UNCHANGED report

\* the usage_records db.get_user_usage returns for the user
records_of(u) == SelectSeq(usage_records, LAMBDA r : r.user_id = u)

\* the figures of the UsageReport built from the records
usage_report(u, days) ==
    [user_id |-> u, days |-> days, total_requests |-> Len(records_of(u)),
     total_cost |-> Sum([i \in 1..Len(records_of(u)) |->
                            records_of(u)[i].estimated_cost]),
     stored |-> Len(records_of(u))]

\* get_user_usage(user_id, days): a cache entry younger than cache_ttl is
\* returned, otherwise the report is built from the records and cached
get_user_usage(u, days) ==
    LET key == user_usage_key(u, days)
        hit == usage_cache[key] # <<>> /\ usage_cache[key][1].fresh
    IN  /\ report' = IF hit
                     THEN [usage_cache[key][1].data EXCEPT
                              !.stored = Len(records_of(u))]
                     ELSE usage_report(u, days)
        /\ usage_cache' = IF hit THEN usage_cache
                          ELSE [usage_cache EXCEPT ![key] =
                                  <<[data |-> usage_report(u, days), fresh |-> TRUE]>>]
        /\ UNCHANGED <<usage_records, last_response>>

\* cache_ttl seconds pass: every entry is older than the limit
cache_ttl_passes ==
    /\ \E k \in CacheKeys : usage_cache[k] # <<>> /\ usage_cache[k][1].fresh
    /\ usage_cache' = [k \in CacheKeys |->
                          IF usage_cache[k] = <<>> THEN <<>>
                          ELSE <<[usage_cache[k][1] EXCEPT !.fresh = FALSE]>>]
    /\ UNCHANGED <<usage_records, last_response, report>>

----------------------------------------------------------------------------
(* WorkflowEngine (apps/ai-service/services/workflow_engine.py).             *)
(* Execution ids stand for the uuid4 strings, in the order of the calls.    *)
(* The events of the channels execution_step and approval_required are not  *)
(* recorded; RedisManager.publish is taken to return.  The routes of        *)
(* api/routes/workflows.py that act on an execution are part of the model.  *)

\* execute_workflow calls in one behaviour
MaxExecutions == 2

ExecutionIds == 1..MaxExecutions

\* langgraph's END
END == "END"

\* a node of a workflow configuration; next, on_true and on_false are the
\* keys "next", "true" and "false" of its connections, None when absent
Node(id, type, next, on_true, on_false) ==
    [id |-> id, type |-> type, next |-> next, on_true |-> on_true,
     on_false |-> on_false]

\* the workflow configurations the CRM service holds, as lists of nodes
WorkflowIds == {"qualify", "notify", "remind"}

workflow_nodes(w) ==
    IF w = "qualify"
    THEN <<Node("start", "trigger", "score", None, None),
           Node("score", "ai_agent", "check", None, None),
           Node("check", "condition", None, "send", "update"),
           Node("send", "send_message", None, None, None),
           Node("update", "update_lead", None, None, None)>>
    ELSE IF w = "notify"
    THEN <<Node("start", "trigger", "approve", None, None),
           Node("approve", "human_approval", "send", None, None),
           Node("send", "send_message", None, None, None)>>
    ELSE IF w = "remind"
    THEN <<Node("start", "trigger", "message", None, None),
           Node("message", "send_message", "wait", None, None),
           Node("wait", "delay", "message", None, None)>>
    ELSE IF w = "orphan"
    THEN <<Node("score", "ai_agent", "send", None, None),
           Node("send", "send_message", None, None, None)>>
    ELSE IF w = "relay"
    THEN <<Node("start", "trigger", "relay", None, None),
           Node("relay", "trigger", "send", None, None),
           Node("send", "send_message", None, None, None)>>
    ELSE <<Node("start", "trigger", "approve", None, None),
           Node("approve", "human_approval", "confirm", None, None),
           Node("confirm", "human_approval", "send", None, None),
           Node("send", "send_message", None, None, None)>>

\* workflow configurations under construction: one without a trigger node,
\* one with two trigger nodes, one with two approval nodes
DraftWorkflowIds == {"orphan", "relay", "review"}

\* the "condition" entry of the config of a node, None when the config has none
configured_condition(w, id) ==
    IF w = "qualify" /\ id = "check" THEN "{score} > 70" ELSE None

\* get_node_config(...).get("condition", "true"): the config of the node whose
\* id is node_id, and {} when no node of the workflow has that id
node_condition(w, node_id) ==
    IF /\ \E i \in 1..Len(workflow_nodes(w)) : workflow_nodes(w)[i].id = node_id
       /\ configured_condition(w, node_id) # None
    THEN configured_condition(w, node_id)
    ELSE "true"

\* the value of "score" in the trigger data of an execution
Scores == {50, 85}

\* eval of a condition after the placeholders were replaced: <<result>>, or
\* <<>> when eval raises, as it does on the name true
eval_condition(condition, score) ==
    IF condition = "{score} > 70" THEN <<score > 70>> ELSE <<>>

\* the node of the workflow with the given id
node_of(w, id) ==
    workflow_nodes(w)[CHOOSE i \in 1..Len(workflow_nodes(w)) :
                          workflow_nodes(w)[i].id = id]

\* trigger_nodes of create_workflow_graph
trigger_nodes(w) == SelectSeq(workflow_nodes(w), LAMBDA n : n.type = "trigger")

\* whether create_workflow_graph returns a graph: set_entry_point is called
\* when there is a trigger node, and compile() raises ValueError on a graph
\* without an entry point
graph_compiles(w) == trigger_nodes(w) # <<>>

\* set_entry_point: the first trigger node
entry_point(w) ==
    workflow_nodes(w)[CHOOSE i \in 1..Len(workflow_nodes(w)) :
        /\ workflow_nodes(w)[i].type = "trigger"
        /\ \A j \in 1..(i - 1) : workflow_nodes(w)[j].type # "trigger"].id

\* the edge the compiled graph follows out of a node: its "next" connection,
\* else the branch condition_router picks, else END
next_node(w, id, condition_result) ==
    LET n == node_of(w, id)
    IN  IF n.next # None THEN n.next
        ELSE IF n.on_true # None /\ n.on_false # None
             THEN IF condition_result THEN n.on_true ELSE n.on_false
        ELSE END

\* a WorkflowState with the position of its execute_workflow call: call is
\* "none" before the call, "rejected" when it raised ValueError, "no_graph"
\* when create_workflow_graph raised, "invoke"
\* inside workflow_graph.ainvoke, "publish" at the await of the completion
\* event and "returned" at the end; at is the node the graph runs next, and
\* visited lists the nodes executed, in the order of their first execution;
\* message_sent is variables["message_sent"], and crm_accepted tells whether
\* the CRM service took a message of this execution
NoExecution == [call |-> "none", workflow_id |-> None, status |-> None,
                error |-> None, current_node |-> "", at |-> None,
                condition_result |-> FALSE, visited |-> <<>>, raised |-> FALSE,
                score |-> 0, approval_pending |-> FALSE, lead_id |-> None,
                message_sent |-> FALSE, crm_accepted |-> FALSE]

\* the lead_id argument of execute_workflow
LeadIds == {None, "lead1"}

\* node types whose handler awaits a collaborator that can fail: the
\* workflow definition, an agent, the CRM, the approval store
FallibleNodeTypes == {"ai_agent", "condition", "human_approval", "send_message",
                      "update_lead", "delay"}

\* condition_node: the condition looked up under state.current_node is
\* evaluated; when eval raises the result is False and the error is recorded
condition_node(x) ==
    LET evaluated == eval_condition(node_condition(x.workflow_id, x.current_node),
                                    x.score)
    IN  IF evaluated # <<>>
        THEN [x EXCEPT !.condition_result = evaluated[1]]
        ELSE [x EXCEPT !.condition_result = FALSE,
                       !.error = "Condition evaluation error"]

\* human_approval_node: the request is stored and published, approval_pending
\* is set and the handler returns
human_approval_node(x) == [x EXCEPT !.approval_pending = TRUE]

\* mutant of send_message_failed: message_sent is left as it was
send_message_unmarked(x) == x

\* send_message_node when crm_integration.send_message returned None because
\* the request failed: message_sent is assigned, then result.get raises
send_message_failed(x) == [x EXCEPT !.message_sent = TRUE]

\* send_message_node when the CRM service took the message; without lead_id
\* nothing is sent
send_message_node(x) ==
    IF x.lead_id # None
    THEN [x EXCEPT !.message_sent = TRUE, !.crm_accepted = TRUE]
    ELSE x

\* what a handler that returns leaves in the state; no handler assigns
\* state.current_node, which stays "", so that update_lead_node finds no
\* update in its node config and does not call the CRM service
handler_state(x, type) ==
    LET y == IF type = "condition" THEN condition_node(x)
             ELSE IF type = "human_approval" THEN human_approval_node(x)
             ELSE IF type = "send_message" THEN send_message_node(x)
             ELSE x
    IN  [y EXCEPT !.visited =
            IF \E i \in 1..Len(@) : @[i] = x.at THEN @ ELSE Append(@, x.at)]

\* save_execution: the body is "pass", so the stored records stay as they are
save_execution(records, e, status, error) == records

\* execute_workflow up to its first suspension inside ainvoke; found tells
\* whether crm_integration.get_workflow returned a configuration
execute_workflow(e, w, found, lead) ==
    /\ executions[e].call = "none"
    /\ \A d \in ExecutionIds : d < e => executions[d].call # "none"
    /\ IF found /\ graph_compiles(w)
       THEN /\ \E score \in Scores : executions' = [executions EXCEPT ![e] =
                    [NoExecution EXCEPT !.call = "invoke", !.workflow_id = w,
                                        !.status = "RUNNING", !.at = entry_point(w),
                                        !.score = score, !.lead_id = lead]]
            /\ active_workflows' = active_workflows \cup {e}
            /\ workflow_executions' = save_execution(workflow_executions, e, "RUNNING", None)
       ELSE /\ executions' = [executions EXCEPT ![e] =
                    [NoExecution EXCEPT !.call = IF found THEN "no_graph"
                                                ELSE "rejected",
                                        !.workflow_id = w]]
            /\ UNCHANGED <<active_workflows, workflow_executions>>
    /\ UNCHANGED <<published, approvals, route_result>>

\* the handler of the node the graph is at returns, and the graph moves on
node_returns(e) ==
    LET x == executions[e]
        y == handler_state(x, node_of(x.workflow_id, x.at).type)
    IN  /\ x.call = "invoke"
        /\ x.at # END
        /\ executions' = [executions EXCEPT ![e] =
                [y EXCEPT !.at = next_node(x.workflow_id, x.at, y.condition_result)]]
        /\ approvals' = IF node_of(x.workflow_id, x.at).type = "human_approval"
                        THEN approvals \cup {<<e, x.current_node>>}
                        ELSE approvals
        /\ UNCHANGED <<active_workflows, workflow_executions, published, route_result>>

\* the statements after the try block, up to the await of the event:
\* save_execution(final_state) and active_workflows.pop(execution_id, None)
completion_bookkeeping(e, final_state) ==
    /\ workflow_executions' = save_execution(workflow_executions, e,
                                              final_state.status, final_state.error)
    /\ active_workflows' = active_workflows \ {e}

\* the handler of the node the graph is at raises: ainvoke raises, the except
\* clause marks initial_state FAILED with the error
node_raises(e) ==
    LET x == executions[e]
        failed(y) == [y EXCEPT !.call = "publish", !.status = "FAILED",
                               !.error = "handler error", !.raised = TRUE]
    IN  /\ x.call = "invoke"
        /\ x.at # END
        /\ node_of(x.workflow_id, x.at).type \in FallibleNodeTypes
        /\ \E final_state \in
                {failed(x)} \cup
                    (IF node_of(x.workflow_id, x.at).type = "send_message"
                            /\ x.lead_id # None
                     THEN {failed(send_message_failed(x))} ELSE {}) :
                /\ executions' = [executions EXCEPT ![e] = final_state]
                /\ completion_bookkeeping(e, final_state)
        /\ UNCHANGED <<published, approvals, route_result>>

\* ainvoke returns the final state, which is marked COMPLETED
invoke_returns(e) ==
    LET x == executions[e]
        final_state == [x EXCEPT !.call = "publish", !.status = "COMPLETED"]
    IN  /\ x.call = "invoke"
        /\ x.at = END
        /\ executions' = [executions EXCEPT ![e] = final_state]
        /\ completion_bookkeeping(e, final_state)
        /\ UNCHANGED <<published, approvals, route_result>>

\* mutant of publish_completed: the event is published and the execution is
\* put back to RUNNING
publish_and_reopen(e) ==
    /\ executions[e].call = "publish"
    /\ published' = Append(published, [channel |-> "workflow_completed",
                                        execution_id |-> e,
                                        workflow_id |-> executions[e].workflow_id,
                                        status |-> executions[e].status])
    /\ executions' = [executions EXCEPT ![e].call = "returned",
                                         ![e].status = "RUNNING"]
    /\ UNCHANGED <<active_workflows, workflow_executions, approvals, route_result>>

\* mutant of publish_completed: the completion event goes out twice
publish_twice(e) ==
    LET event == [channel |-> "workflow_completed", execution_id |-> e,
                  workflow_id |-> executions[e].workflow_id,
                  status |-> executions[e].status]
    IN  /\ executions[e].call = "publish"
        /\ published' = published \o <<event, event>>
        /\ executions' = [executions EXCEPT ![e].call = "returned"]
        /\ UNCHANGED <<active_workflows, workflow_executions, approvals, route_result>>

\* RedisManager.publish("workflow_completed", ...) returns, and
\* execute_workflow returns the execution id
publish_completed(e) ==
    /\ executions[e].call = "publish"
    /\ published' = Append(published, [channel |-> "workflow_completed",
                                        execution_id |-> e,
                                        workflow_id |-> executions[e].workflow_id,
                                        status |-> executions[e].status])
    /\ executions' = [executions EXCEPT ![e].call = "returned"]
    /\ UNCHANGED <<active_workflows, workflow_executions, approvals, route_result>>

\* no /approve or stop request answered yet
NoRouteResult == [route |-> None, execution_id |-> 0, status_code |-> 0]

\* the node ids an /approve request can name
ApprovalNodeIds == {"", "approve"}

\* POST /approve: WorkflowEngine has no method approveWorkflowStep, so the
\* call raises AttributeError and the route answers 400; nothing else changes
approve_workflow_step(e, node_id, approved) ==
    /\ route_result' = [route |-> "approve", execution_id |-> e, status_code |-> 400]
    /\ UNCHANGED <<executions, active_workflows, workflow_executions, published,
                   approvals>>

\* DELETE /executions/{execution_id}: WorkflowEngine has no method
\* stop_execution, so the call raises AttributeError and the route answers
\* 400; the execution is left as it is
stop_execution(e) ==
    /\ route_result' = [route |-> "stop", execution_id |-> e, status_code |-> 400]
    /\ UNCHANGED <<executions, active_workflows, workflow_executions, published,
                   approvals>>

\* reload_models: _load_model_configs empties self.models and fills it from
\* what the providers list now, o for OpenAI and l for Ollama (<<>> also when
\* the listing raises, which is logged); health, counts and times are reset
\* for the models listed and left for the others
reload_models(o, l) ==
    LET listed == Range(o \o l)
    IN  /\ catalog' = o \o l
        /\ is_active' = [m \in ModelIds |-> IF m \in listed THEN TRUE ELSE is_active[m]]
        /\ health_status' = [m \in ModelIds |->
                                IF m \in listed THEN TRUE ELSE health_status[m]]
        /\ request_counts' = [m \in ModelIds |->
                                IF m \in listed THEN 0 ELSE request_counts[m]]
        /\ response_times' = [m \in ModelIds |->
                                IF m \in listed THEN <<>> ELSE response_times[m]]
        /\ UNCHANGED <<pc, request, model_to_use, fb_index, calls, errors, result,
                       started>>

----------------------------------------------------------------------------
(* Request ids: ModelManager.generate stamps "req_<clock in ms>" on the      *)
(* response.  A request id is modelled by the clock value it was made from.   *)

\* clock values of one behaviour, in milliseconds
MaxClock == 3

\* generate calls of one behaviour
MaxCalls == 3

CallIds == 1..MaxCalls

\* a generate call: at is "none" before the call, "running" between the
\* first line and the return, "returned" with the response, "raised" when no
\* model could answer; request_id is the clock value read at line 134
NoStamp == [at |-> "none", request_id |-> -1]

\* a millisecond passes
tick ==
    /\ clock < MaxClock
    /\ clock' = clock + 1
    /\ UNCHANGED stamped

\* generate, lines 133-134: request_id = f"req_{int(time.time() * 1000)}"
generate_reads_clock(c) ==
    /\ stamped[c].at = "none"
    /\ stamped' = [stamped EXCEPT ![c] = [at |-> "running", request_id |-> clock]]
    /\ UNCHANGED clock

\* generate returns the response of the primary or of a fallback model with
\* response.request_id = request_id
generate_stamps_response(c) ==
    /\ stamped[c].at = "running"
    /\ stamped' = [stamped EXCEPT ![c].at = "returned"]
    /\ UNCHANGED clock

\* generate raises: no model available, or all models failed
generate_raises(c) ==
    /\ stamped[c].at = "running"
    /\ stamped' = [stamped EXCEPT ![c].at = "raised"]
    /\ UNCHANGED clock

----------------------------------------------------------------------------
(* reload_models with its suspensions: _load_model_configs empties           *)
(* self.models and awaits get_available_models of one provider after the     *)
(* other, OpenAI first.                                                      *)

\* a reload_models call: at is "idle" outside the call, "openai" and "ollama"
\* while the listing of that provider is awaited; before is the set of models
\* that were in the catalog, active and healthy when the call began; o and l
\* are what the providers answer in this call (<<>> also when the call raises)
NoReload == [at |-> "idle", before |-> {}, o |-> <<>>, l |-> <<>>]

\* the assignments of the inner for loop of _load_model_configs for the
\* models one provider listed
load_listed(listed) ==
    /\ catalog' = catalog \o listed
    /\ health_status' = [m \in ModelIds |->
                            IF m \in Range(listed) THEN TRUE ELSE health_status[m]]
    /\ request_counts' = [m \in ModelIds |->
                            IF m \in Range(listed) THEN 0 ELSE request_counts[m]]
    /\ response_times' = [m \in ModelIds |->
                            IF m \in Range(listed) THEN <<>> ELSE response_times[m]]
    /\ is_active' = [m \in ModelIds |->
                            IF m \in Range(listed) THEN TRUE ELSE is_active[m]]

\* reload_models up to the first await: self.models = {}
reload_models_begins(o, l) ==
    /\ reload.at = "idle"
    /\ reload' = [at |-> "openai",
                  before |-> {m \in Range(catalog) : health_status[m] /\ is_active[m]},
                  o |-> o, l |-> l]
    /\ catalog' = <<>>
    /\ UNCHANGED <<is_active, health_status, request_counts, response_times,
                   pc, request, model_to_use, fb_index, calls, errors, result,
                   started>>

\* the OpenAI provider's get_available_models has answered
reload_models_loads_openai ==
    /\ reload.at = "openai"
    /\ load_listed(reload.o)
    /\ reload' = [reload EXCEPT !.at = "ollama"]
    /\ UNCHANGED <<pc, request, model_to_use, fb_index, calls, errors, result,
                   started>>

\* the Ollama provider's get_available_models has answered: reload_models
\* returns
reload_models_loads_ollama ==
    /\ reload.at = "ollama"
    /\ load_listed(reload.l)
    /\ reload' = [reload EXCEPT !.at = "idle"]
    /\ UNCHANGED <<pc, request, model_to_use, fb_index, calls, errors, result,
                   started>>

----------------------------------------------------------------------------
(* Streaming: ModelManager.generate_stream over the generate_stream of the   *)
(* OpenAI and the Ollama adapter.  A text is a pair of its characters and    *)
(* its words, which is all the token estimates read.                         *)

\* items the upstream API sends in one stream
MaxChunks == 3

\* the pieces of text upstream sends: <<characters, words>>
Contents == {<<0, 0>>, <<3, 1>>, <<6, 1>>}

\* a StreamChunk; total_tokens and model_used are <<>> when None
StreamChunk(chunk_id, content, is_final, total_tokens, model_used) ==
    [chunk_id |-> chunk_id, content |-> content, is_final |-> is_final,
     total_tokens |-> total_tokens, model_used |-> model_used]

\* what the OpenAI client yields: a delta of a choice with its content, or a
\* chunk without choices
OpenAIItems ==
    [choices : {TRUE}, content : Contents] \cup {[choices |-> FALSE, content |-> <<0, 0>>]}

\* what the Ollama API sends: a JSON line with or without "response", with or
\* without "done", or a line that is not JSON
OllamaItems ==
    [json : {TRUE}, response : {<<>>} \cup {<<c>> : c \in Contents}, done : BOOLEAN]
        \cup {[json |-> FALSE, response |-> <<>>, done |-> FALSE]}

UpstreamItems(provider) == IF provider = "openai" THEN OpenAIItems ELSE OllamaItems

\* models a stream can be asked of
StreamModels == {"gpt-4", "llama2"}

\* the stream of one generate_stream call: state is "none" before the call,
\* "open" while the adapter reads upstream, "closing" when the adapter has
\* left its loop, "done" when the generator ended and "failed" when it
\* raised; chunk_id is the counter of the adapter, manager_chunk_id the one
\* of ModelManager, chars and words measure total_content
NoStream == [state |-> "none", model_id |-> None, provider |-> None, received |-> 0,
             chunk_id |-> 0, manager_chunk_id |-> 0, chars |-> 0, words |-> 0]

\* OpenAIProvider: len(total_content.split())
openai_total_tokens(chars, words) == words

\* OllamaProvider._estimate_tokens(total_content)
estimate_tokens(chars, words) == IF chars = 0 THEN 0 ELSE Max(1, chars \div 4)

\* the chunk the adapter makes of an upstream item, <<>> when it yields none
adapter_chunk(s, item) ==
    IF s.provider = "openai"
    THEN IF item.choices /\ item.content[1] > 0
         THEN <<StreamChunk(s.chunk_id, item.content, FALSE, <<>>, <<>>)>>
         ELSE <<>>
    ELSE IF item.json /\ item.response # <<>>
         THEN <<StreamChunk(s.chunk_id, item.response[1], item.done, <<>>, <<>>)>>
         ELSE <<>>

\* the final chunk of the adapter, with the token estimate and the model id
final_chunk(s) ==
    StreamChunk(s.chunk_id, <<0, 0>>, TRUE,
                <<IF s.provider = "openai" THEN openai_total_tokens(s.chars, s.words)
                  ELSE estimate_tokens(s.chars, s.words)>>,
                <<s.model_id>>)

\* mutant of manager_chunk: the chunk keeps the number 0
unnumbered_chunk(chunk, chunk_id) == [chunk EXCEPT !.chunk_id = 0]

\* ModelManager.generate_stream: chunk.chunk_id = chunk_id
manager_chunk(chunk, chunk_id) == [chunk EXCEPT !.chunk_id = chunk_id]

\* what generate_stream yields of the chunks an adapter step produced
yield_chunks(s, chunks) ==
    IF chunks = <<>> THEN delivered
    ELSE Append(delivered, manager_chunk(chunks[1], s.manager_chunk_id))

\* generate_stream up to its first chunk: the model is selected and the
\* adapter called; available tells whether _select_best_model found a model
generate_stream_start(m, available) ==
    /\ stream.state = "none"
    /\ stream' = IF available
                 THEN [NoStream EXCEPT !.state = "open", !.model_id = m,
                                       !.provider = model_type(m)]
                 ELSE [NoStream EXCEPT !.state = "failed"]
    /\ UNCHANGED delivered

\* the adapter reads one upstream item and yields a chunk of it or skips it;
\* the Ollama adapter leaves its loop after a chunk whose line said done
adapter_reads(item) ==
    LET chunks == adapter_chunk(stream, item)
        yielded == chunks # <<>>
    IN  /\ stream.state = "open"
        /\ stream.received < MaxChunks
        /\ delivered' = yield_chunks(stream, chunks)
        /\ stream' = [stream EXCEPT
              !.received = @ + 1,
              !.chunk_id = IF yielded THEN @ + 1 ELSE @,
              !.manager_chunk_id = IF yielded THEN @ + 1 ELSE @,
              !.chars = IF yielded THEN @ + chunks[1].content[1] ELSE @,
              !.words = IF yielded THEN @ + chunks[1].content[2] ELSE @,
              !.state = IF yielded /\ chunks[1].is_final THEN "closing" ELSE "open"]

\* upstream has ended, or the adapter left its loop: it yields its final
\* chunk and the generators end
adapter_finishes ==
    /\ stream.state \in {"open", "closing"}
    /\ delivered' = yield_chunks(stream, <<final_chunk(stream)>>)
    /\ stream' = [stream EXCEPT !.state = "done", !.chunk_id = @ + 1,
                                !.manager_chunk_id = @ + 1]

\* the upstream call raises: the adapter logs and re-raises
adapter_raises ==
    /\ stream.state = "open"
    /\ stream' = [stream EXCEPT !.state = "failed"]
    /\ UNCHANGED delivered

\* the state initialize() leaves: _load_model_configs over the providers
InitModelManager ==
    /\ \E o \in OpenAIListings, l \in OllamaListings : catalog = o \o l
    /\ is_active = [m \in ModelIds |-> TRUE]
    /\ health_status = [m \in ModelIds |-> InCatalog(m)]
    /\ request_counts = [m \in ModelIds |-> 0]
    /\ response_times = [m \in ModelIds |-> <<>>]
    /\ pc = "idle"
    /\ request = NoRequest
    /\ model_to_use = None
    /\ fb_index = 0
    /\ calls = <<>>
    /\ errors = <<>>
    /\ result = NoResult
    /\ started = 0

IdleRuleEngine ==
    /\ rule_set = NoRuleSet
    /\ rule_request = NoRuleRequest
    /\ request_at_call = NoRuleRequest
    /\ tested_on = <<>>
    /\ rule_result = NoRuleRequest
    /\ eval_log = <<>>
    /\ rules_applied = <<>>
    /\ usage_events = <<>>
    /\ applied = 0
    /\ response_at_call = NoResponse
    /\ caller_response = NoResponse
    /\ response_result = NoResponse

IdleConditionCheck ==
    /\ cond_call = NoCall
    /\ cond_result = None

IdleRuleStore ==
    /\ rule_store = [id \in StoreIds |-> <<>>]
    /\ rule_cache = [id \in StoreIds |-> <<>>]
    /\ store_call = [op |-> None, rule_set_id |-> None, rule_set |-> NoStoredRuleSet,
                     outcome |-> None, returned |-> <<>>]
    /\ last_created = <<>>

IdleCost ==
    /\ cost_call = NoCostCall
    /\ prev_cost_call = NoCostCall

\* WorkflowEngine.__init__: no execution yet
IdleWorkflows ==
    /\ executions = [e \in ExecutionIds |-> NoExecution]
    /\ active_workflows = {}
    /\ workflow_executions = [e \in ExecutionIds |-> None]
    /\ published = <<>>
    /\ approvals = {}
    /\ route_result = NoRouteResult

\* no generate_stream call yet
IdleStream ==
    /\ stream = NoStream
    /\ delivered = <<>>

\* no generate call has read the clock yet
IdleRequestIds ==
    /\ clock = 0
    /\ stamped = [c \in CallIds |-> NoStamp]

\* no get_rule_set call is under way
IdleGets == gets = [g \in GetIds |-> NoGet]

\* no reload_models call is under way
IdleReload == reload = NoReload

\* TokenTracker.__init__ over an empty token_usage table
IdleTracker ==
    /\ usage_records = <<>>
    /\ usage_cache = [k \in CacheKeys |-> <<>>]
    /\ last_response = NoGenerated
    /\ report = NoReport

IdleOther == IdleRequestIds /\ IdleGets /\ IdleReload /\ IdleTracker

\* the other components, before their first call
IdleRest ==
    /\ IdleConditionCheck /\ IdleRuleStore /\ IdleCost /\ IdleWorkflows
    /\ IdleStream /\ IdleOther

Init == InitModelManager /\ IdleRuleEngine /\ IdleRest

\* the health check loop and configure_model calls run beside generate
CatalogChanges ==
    \/ \E m \in ModelIds, h \in BOOLEAN : check_model_health(m, h)
    \/ \E m \in ModelIds, a \in BOOLEAN : configure_model(m, a)

\* the life of the catalog: health checks, configure_model and reload_models
NextCatalog ==
    \/ (\E m \in ModelIds, h \in BOOLEAN : check_model_health(m, h))
            /\ UNCHANGED <<reVars, restVars>>
    \/ (\E m \in ModelIds, a \in BOOLEAN : configure_model(m, a))
            /\ UNCHANGED <<reVars, restVars>>
    \/ (\E o \in OpenAIListings, l \in OllamaListings : reload_models(o, l))
            /\ UNCHANGED <<reVars, restVars>>

SpecCatalog == Init /\ [][NextCatalog]_vars

\* one generate call beside reload_models calls
NextReload ==
    \/ /\ started = 0
       /\ \E req \in RequestsNoFallback : generate_start(req)
       /\ UNCHANGED <<reVars, restVars>>
    \/ \E t \in Latencies : primary_succeeds(t) /\ UNCHANGED <<reVars, restVars>>
    \/ primary_fails /\ UNCHANGED <<reVars, restVars>>
    \/ (\E o \in OpenAIListings, l \in OllamaListings : reload_models_begins(o, l))
            /\ UNCHANGED <<reVars, ccVars, rsVars, costVars, wfVars, stVars,
                           idVars, getVars, tkVars>>
    \/ reload_models_loads_openai
            /\ UNCHANGED <<reVars, ccVars, rsVars, costVars, wfVars, stVars,
                           idVars, getVars, tkVars>>
    \/ reload_models_loads_ollama
            /\ UNCHANGED <<reVars, ccVars, rsVars, costVars, wfVars, stVars,
                           idVars, getVars, tkVars>>

SpecReload == Init /\ [][NextReload]_vars

\* one generate call, with any fallback list, beside the catalog's changes
Next ==
    \/ started = 0 /\ (\E req \in Requests : generate_start(req)) /\ UNCHANGED <<reVars, restVars>>
    \/ \E t \in Latencies : primary_succeeds(t) /\ UNCHANGED <<reVars, restVars>>
    \/ primary_fails /\ UNCHANGED <<reVars, restVars>>
    \/ \E t \in Latencies : fallback_succeeds(t) /\ UNCHANGED <<reVars, restVars>>
    \/ fallback_fails /\ UNCHANGED <<reVars, restVars>>
    \/ CatalogChanges /\ UNCHANGED <<reVars, restVars>>

Spec == Init /\ [][Next]_vars

\* a sequence of generate calls without fallback lists, so that the response
\* time statistics the scores read vary, beside the catalog's changes
NextSeq ==
    \/ /\ started < MaxRequests
       /\ \E req \in RequestsNoFallback : generate_start(req)
       /\ UNCHANGED <<reVars, restVars>>
    \/ \E t \in Latencies : primary_succeeds(t) /\ UNCHANGED <<reVars, restVars>>
    \/ primary_fails /\ UNCHANGED <<reVars, restVars>>
    \/ CatalogChanges /\ UNCHANGED <<reVars, restVars>>

SpecSeq == Init /\ [][NextSeq]_vars

\* the state after earlier generate calls have filled the response times of
\* every catalog model up to one sample below the retention limit
InitRetained ==
    /\ \E o \in OpenAIListings, l \in OllamaListings : catalog = o \o l
    /\ is_active = [m \in ModelIds |-> TRUE]
    /\ health_status = [m \in ModelIds |-> InCatalog(m)]
    /\ request_counts = [m \in ModelIds |-> IF InCatalog(m) THEN RetainedSamples - 1 ELSE 0]
    /\ response_times = [m \in ModelIds |->
            IF InCatalog(m) THEN [i \in 1..(RetainedSamples - 1) |-> 1000] ELSE <<>>]
    /\ pc = "idle"
    /\ request = NoRequest
    /\ model_to_use = None
    /\ fb_index = 0
    /\ calls = <<>>
    /\ errors = <<>>
    /\ result = NoResult
    /\ started = 0
    /\ IdleRuleEngine
    /\ IdleRest

\* a sequence of generate calls with any fallback lists
NextRetained ==
    \/ /\ started < MaxRequests
       /\ \E req \in Requests : generate_start(req)
       /\ UNCHANGED <<reVars, restVars>>
    \/ \E t \in Latencies : primary_succeeds(t) /\ UNCHANGED <<reVars, restVars>>
    \/ primary_fails /\ UNCHANGED <<reVars, restVars>>
    \/ \E t \in Latencies : fallback_succeeds(t) /\ UNCHANGED <<reVars, restVars>>
    \/ fallback_fails /\ UNCHANGED <<reVars, restVars>>

SpecRetained == InitRetained /\ [][NextRetained]_vars

\* the model manager before initialize(): no catalog, no call
IdleModelManager ==
    /\ catalog = <<>>
    /\ is_active = [m \in ModelIds |-> TRUE]
    /\ health_status = [m \in ModelIds |-> FALSE]
    /\ request_counts = [m \in ModelIds |-> 0]
    /\ response_times = [m \in ModelIds |-> <<>>]
    /\ pc = "idle"
    /\ request = NoRequest
    /\ model_to_use = None
    /\ fb_index = 0
    /\ calls = <<>>
    /\ errors = <<>>
    /\ result = NoResult
    /\ started = 0

InitRules == IdleModelManager /\ IdleRuleEngine /\ IdleRest

\* one apply_input_rules call, on any request and any rule set
NextRules ==
    /\ applied = 0
    /\ \E req \in RuleRequests, rs \in RuleSets : apply_input_rules(req, rs)
    /\ UNCHANGED <<mmVars, restVars>>

SpecRules == InitRules /\ [][NextRules]_vars

\* apply_output_rules on any response and any rule set, and then once more on
\* the response it returned
NextOutput ==
    \/ /\ applied = 0
       /\ \E resp \in Responses, rs \in OutputRuleSets : apply_output_rules(resp, rs, TRUE)
       /\ UNCHANGED <<mmVars, restVars>>
    \/ /\ applied = 1
       /\ apply_output_rules(response_result, rule_set, FALSE)
       /\ UNCHANGED <<mmVars, restVars>>

SpecOutput == InitRules /\ [][NextOutput]_vars

\* one _check_rule_condition call, on any condition, in either phase
NextCond ==
    \/ /\ cond_result = None
       /\ \E c \in Conditions, req \in RuleRequests : check_input_condition(c, req)
       /\ UNCHANGED <<mmVars, reVars, rsVars, costVars, wfVars, stVars,
                          otherVars>>
    \/ /\ cond_result = None
       /\ \E c \in Conditions, resp \in Responses : check_output_condition(c, resp)
       /\ UNCHANGED <<mmVars, reVars, rsVars, costVars, wfVars, stVars,
                          otherVars>>

SpecCond == InitRules /\ [][NextCond]_vars

\* create, update, get and delete calls and cache clearings, one at a time
NextStore ==
    \/ (\E rs \in StoreRuleSets : create_rule_set(rs))
            /\ UNCHANGED <<mmVars, reVars, ccVars, costVars, wfVars, stVars,
                          otherVars>>
    \/ (\E id \in StoreIds, rs \in StoreRuleSets : update_rule_set(id, rs))
            /\ UNCHANGED <<mmVars, reVars, ccVars, costVars, wfVars, stVars,
                          otherVars>>
    \/ (\E id \in StoreIds : get_rule_set(id)) /\ UNCHANGED <<mmVars, reVars, ccVars, costVars, wfVars, stVars,
                          otherVars>>
    \/ (\E id \in StoreIds : delete_rule_set(id)) /\ UNCHANGED <<mmVars, reVars, ccVars, costVars, wfVars, stVars,
                          otherVars>>
    \/ clear_cache /\ UNCHANGED <<mmVars, reVars, ccVars, costVars, wfVars, stVars,
                          otherVars>>

SpecStore == InitRules /\ [][NextStore]_vars

\* rule sets without rules, which create_rule_set accepts
PlainRuleSets == {rs \in StoreRuleSets : rs.rules = <<>>}

\* get_rule_set calls suspended on their store read beside create_rule_set
\* and delete_rule_set calls; a deleted rule set is not created again
NextGets ==
    \/ (\E rs \in PlainRuleSets : store_call.op # "delete_rule_set" /\ create_rule_set(rs))
            /\ UNCHANGED <<mmVars, reVars, ccVars, costVars, wfVars, stVars,
                          otherVars>>
    \/ (\E id \in StoreIds : delete_rule_set(id))
            /\ UNCHANGED <<mmVars, reVars, ccVars, costVars, wfVars, stVars,
                          otherVars>>
    \/ (\E g \in GetIds, id \in StoreIds : get_rule_set_begins(g, id))
            /\ UNCHANGED <<mmVars, reVars, ccVars, costVars, wfVars, stVars,
                          idVars, rlVars, tkVars>>
    \/ (\E g \in GetIds : get_rule_set_fetches(g))
            /\ UNCHANGED <<mmVars, reVars, ccVars, costVars, wfVars, stVars,
                          idVars, rlVars, tkVars>>
    \/ (\E g \in GetIds : get_rule_set_resumes(g))
            /\ UNCHANGED <<mmVars, reVars, ccVars, costVars, wfVars, stVars,
                          idVars, rlVars, tkVars>>

SpecGets == InitRules /\ [][NextGets]_vars

\* the model manager after initialize() with gpt-4 and llama2 listed
InitCost ==
    /\ InitModelManager
    /\ catalog = <<"gpt-4", "llama2">>
    /\ IdleRuleEngine
    /\ IdleRest

\* /generate requests and usage reports, one after the other
NextTracker ==
    \/ (\E u \in RequestUsers, m \in ModelIds, t \in {0, MaxTokens} :
            generate_response(u, m, t, t))
            /\ UNCHANGED <<mmVars, reVars, ccVars, rsVars, costVars, wfVars, stVars,
                           idVars, getVars, rlVars>>
    \/ (\E u \in {"anonymous", "u1"}, d \in ReportDays : get_user_usage(u, d))
            /\ UNCHANGED <<mmVars, reVars, ccVars, rsVars, costVars, wfVars, stVars,
                           idVars, getVars, rlVars>>
    \/ cache_ttl_passes
            /\ UNCHANGED <<mmVars, reVars, ccVars, rsVars, costVars, wfVars, stVars,
                           idVars, getVars, rlVars>>

SpecTracker == InitCost /\ [][NextTracker]_vars

\* cost computations, one after the other, on any model and any token usage
NextCost ==
    \/ (\E m \in ModelIds, i \in TokenCounts, o \in TokenCounts : calculate_cost(m, i, o))
            /\ UNCHANGED <<mmVars, reVars, ccVars, rsVars, wfVars, stVars,
                          otherVars>>
    \/ (\E m \in ModelIds, i \in TokenCounts, o \in TokenCounts :
            calculate_pricing(m, i, o))
            /\ UNCHANGED <<mmVars, reVars, ccVars, rsVars, wfVars, stVars,
                          otherVars>>

SpecCost == InitCost /\ [][NextCost]_vars

\* one generate_stream call, over any upstream
NextStream ==
    \/ (\E m \in StreamModels, available \in BOOLEAN : generate_stream_start(m, available))
            /\ UNCHANGED <<mmVars, reVars, ccVars, rsVars, costVars, wfVars,
                          otherVars>>
    \/ (\E item \in UpstreamItems(stream.provider) : adapter_reads(item))
            /\ UNCHANGED <<mmVars, reVars, ccVars, rsVars, costVars, wfVars,
                          otherVars>>
    \/ adapter_finishes
            /\ UNCHANGED <<mmVars, reVars, ccVars, rsVars, costVars, wfVars,
                          otherVars>>
    \/ adapter_raises
            /\ UNCHANGED <<mmVars, reVars, ccVars, rsVars, costVars, wfVars,
                          otherVars>>

SpecStream == InitRules /\ [][NextStream]_vars

\* generate calls started by the event loop at any clock value
NextRequestIds ==
    \/ tick /\ UNCHANGED <<mmVars, reVars, ccVars, rsVars, costVars, wfVars, stVars,
                          getVars, rlVars, tkVars>>
    \/ (\E c \in CallIds : generate_reads_clock(c))
            /\ UNCHANGED <<mmVars, reVars, ccVars, rsVars, costVars, wfVars, stVars,
                          getVars, rlVars, tkVars>>
    \/ (\E c \in CallIds : generate_stamps_response(c))
            /\ UNCHANGED <<mmVars, reVars, ccVars, rsVars, costVars, wfVars, stVars,
                          getVars, rlVars, tkVars>>
    \/ (\E c \in CallIds : generate_raises(c))
            /\ UNCHANGED <<mmVars, reVars, ccVars, rsVars, costVars, wfVars, stVars,
                          getVars, rlVars, tkVars>>

SpecRequestIds == InitRules /\ [][NextRequestIds]_vars

\* execute_workflow calls running side by side, each stepping through its graph
NextWorkflow ==
    \/ (\E e \in ExecutionIds, w \in WorkflowIds, found \in BOOLEAN :
            execute_workflow(e, w, found, "lead1"))
            /\ UNCHANGED <<mmVars, reVars, ccVars, rsVars, costVars, stVars,
                          otherVars>>
    \/ (\E e \in ExecutionIds : node_returns(e))
            /\ UNCHANGED <<mmVars, reVars, ccVars, rsVars, costVars, stVars,
                          otherVars>>
    \/ (\E e \in ExecutionIds : node_raises(e))
            /\ UNCHANGED <<mmVars, reVars, ccVars, rsVars, costVars, stVars,
                          otherVars>>
    \/ (\E e \in ExecutionIds : invoke_returns(e))
            /\ UNCHANGED <<mmVars, reVars, ccVars, rsVars, costVars, stVars,
                          otherVars>>
    \/ (\E e \in ExecutionIds : publish_completed(e))
            /\ UNCHANGED <<mmVars, reVars, ccVars, rsVars, costVars, stVars,
                          otherVars>>

SpecWorkflow == InitRules /\ [][NextWorkflow]_vars

\* executions of the workflow configurations under construction
NextDrafts ==
    \/ (\E e \in ExecutionIds, w \in DraftWorkflowIds, found \in BOOLEAN,
            lead \in LeadIds : execute_workflow(e, w, found, lead))
            /\ UNCHANGED <<mmVars, reVars, ccVars, rsVars, costVars, stVars,
                          otherVars>>
    \/ (\E e \in ExecutionIds : node_returns(e))
            /\ UNCHANGED <<mmVars, reVars, ccVars, rsVars, costVars, stVars,
                          otherVars>>
    \/ (\E e \in ExecutionIds : node_raises(e))
            /\ UNCHANGED <<mmVars, reVars, ccVars, rsVars, costVars, stVars,
                          otherVars>>
    \/ (\E e \in ExecutionIds : invoke_returns(e))
            /\ UNCHANGED <<mmVars, reVars, ccVars, rsVars, costVars, stVars,
                          otherVars>>
    \/ (\E e \in ExecutionIds : publish_completed(e))
            /\ UNCHANGED <<mmVars, reVars, ccVars, rsVars, costVars, stVars,
                          otherVars>>

SpecDrafts == InitRules /\ [][NextDrafts]_vars

\* what the event loop guarantees: a handler that was awaited returns or
\* raises, and the statements after ainvoke and after the publish run
FairWorkflow ==
    \A e \in ExecutionIds :
        /\ WF_wfVars(node_returns(e) \/ node_raises(e))
        /\ WF_wfVars(invoke_returns(e))
        /\ WF_wfVars(publish_completed(e))

SpecWorkflowFair == SpecWorkflow /\ FairWorkflow

\* the executions together with the /approve and stop requests of clients
NextRoutes ==
    \/ NextWorkflow
    \/ (\E e \in ExecutionIds, node_id \in ApprovalNodeIds, approved \in BOOLEAN :
            approve_workflow_step(e, node_id, approved))
            /\ UNCHANGED <<mmVars, reVars, ccVars, rsVars, costVars, stVars,
                          otherVars>>
    \/ (\E e \in ExecutionIds : stop_execution(e))
            /\ UNCHANGED <<mmVars, reVars, ccVars, rsVars, costVars, stVars,
                          otherVars>>

SpecRoutes == InitRules /\ [][NextRoutes]_vars

----------------------------------------------------------------------------
(* Claims C1..C10 *)

\* a preferred model the specification calls usable: in the catalog, active, healthy
Usable(m) == m \in ModelIds /\ InCatalog(m) /\ is_active[m] /\ health_status[m]

\* the step is the start of a generate call
Starts == started' # started

\* C1: whenever generate selects a model for a request whose preferred_model
\* is in the catalog, active and healthy at that moment, the model selected is
\* the preferred model, whatever the other models score.
C1_PreferredModelReturned ==
    [][Starts /\ Usable(request'.preferred_model)
          => model_to_use' = request'.preferred_model]_vars

\* C1 witness: the preferred model was selected although an available model
\* scores strictly higher.
C1_Witness ==
    /\ pc = "primary"
    /\ Usable(request.preferred_model)
    /\ model_to_use = request.preferred_model
    /\ \E m \in Range(available_models) :
          model_score(m, request) > model_score(model_to_use, request)

\* C2 (as claimed): every model _select_best_model returns is, at the moment
\* of the call, in the catalog, active and healthy.
C2_SelectedActiveAndHealthy ==
    [][Starts /\ model_to_use' # None => Usable(model_to_use')]_vars

\* the model is first among the available models with the greatest score
BestAvailable(m, req) ==
    /\ m \in Range(available_models)
    /\ \A i \in 1..Len(available_models) :
          /\ model_score(available_models[i], req) <= model_score(m, req)
          /\ model_score(available_models[i], req) = model_score(m, req)
                => \E j \in 1..i : available_models[j] = m

\* C3 (as claimed): when the request's preferred model is not usable (unset,
\* absent, inactive or unhealthy) and some model is available, the model
\* selected has the greatest score of the active and healthy models and is the
\* first of them, in catalog order, with that score.
C3_BestScoreFirstInCatalogOrder ==
    [][Starts /\ ~Usable(request'.preferred_model) /\ available_models # <<>>
          => BestAvailable(model_to_use', request')]_vars

\* C4 (as claimed): when no catalog model is both active and healthy,
\* selection fails and generate ends without calling a provider.
C4_NoAvailableModelFails ==
    [][Starts /\ available_models = <<>>
          => /\ model_to_use' = None
             /\ result'.kind = "no_models"
             /\ calls' = <<>>]_vars

\* the step dispatches a fallback provider.generate call
DispatchesFallback == Len(calls') > Len(calls) /\ Len(calls) >= 1

\* the model of the call dispatched by the step, and its place in the list
Dispatched == calls'[Len(calls')]

\* C5: after the primary failed, fallbacks are attempted in list order: each
\* fallback call is to a model later in request.fallback_models than every
\* call before it, follows only failed calls, and skips no model that is in
\* the catalog, active, healthy and not the primary; a response from a
\* fallback carries the model of the last call made, and no call follows it.
C5_FallbacksInOrderFirstSuccessWins ==
    [][/\ DispatchesFallback =>
            /\ Dispatched.index > calls[Len(calls)].index
            /\ Dispatched.model = request.fallback_models[Dispatched.index]
            /\ Len(errors') = Len(calls)
            /\ \A k \in (calls[Len(calls)].index + 1)..(Dispatched.index - 1) :
                  ~(Usable(request.fallback_models[k])
                    /\ request.fallback_models[k] # model_to_use)
       /\ (pc = "fallback" /\ result'.kind = "response") =>
            /\ result'.model_used = calls[Len(calls)].model
            /\ calls' = calls
            /\ pc' = "done"
       /\ pc = "done" => calls' = calls]_vars

\* C5 witness: the first fallback answered; the second, usable, was never called.
C5_Witness ==
    /\ pc = "done"
    /\ result.kind = "response"
    /\ Len(request.fallback_models) = 2
    /\ Len(calls) = 2
    /\ calls[2].index = 1
    /\ result.model_used = request.fallback_models[1]
    /\ Usable(request.fallback_models[2])
    /\ request.fallback_models[2] # model_to_use

\* C6 (as claimed): a fallback call is only dispatched to a model that is in
\* the catalog, active, healthy and not the primary model.
C6_FallbackOnlyToUsableModels ==
    [][DispatchesFallback =>
          /\ Usable(Dispatched.model)
          /\ Dispatched.model # model_to_use]_vars

\* Scenario C for request req: its preferred model is in the catalog and
\* unhealthy, its fallback list is [m2, m3], both in the catalog, and m2 is healthy
ScenarioC(req) ==
    /\ req.preferred_model \in ModelIds
    /\ InCatalog(req.preferred_model)
    /\ ~health_status[req.preferred_model]
    /\ Len(req.fallback_models) = 2
    /\ InCatalog(req.fallback_models[1])
    /\ InCatalog(req.fallback_models[2])
    /\ health_status[req.fallback_models[1]]

\* C7 (as claimed): in Scenario C the adapter of m3 is never called and a
\* response carries model_used = m2.
C7_ScenarioC_AsClaimed ==
    [][/\ (Starts /\ ScenarioC(request')) =>
            \A i \in 1..Len(calls') : calls'[i].model # request'.fallback_models[2]
       /\ (ScenarioC(request) /\ result.kind = "none" /\ result'.kind = "response") =>
            result'.model_used = request.fallback_models[1]]_vars

\* C7 (amended): an unhealthy preferred model is not selected; when the
\* selected primary's call fails and fallback_models = [m2, m3] with m2 in the
\* catalog, healthy and not the primary, m2 is the next model called; when
\* that call succeeds the response carries model_used = m2 and no call follows.
C7_ScenarioC_Amended ==
    [][/\ (Starts /\ request'.preferred_model \in ModelIds
                  /\ ~health_status[request'.preferred_model]) =>
            model_to_use' # request'.preferred_model
       /\ (pc = "primary" /\ errors' # errors
                  /\ Len(request.fallback_models) = 2
                  /\ InCatalog(request.fallback_models[1])
                  /\ health_status[request.fallback_models[1]]
                  /\ request.fallback_models[1] # model_to_use) =>
            /\ pc' = "fallback"
            /\ calls' = Append(calls, [model |-> request.fallback_models[1],
                                       index |-> 1])
       /\ (pc = "fallback" /\ fb_index = 1 /\ result'.kind = "response") =>
            /\ result'.model_used = request.fallback_models[1]
            /\ calls' = calls
       /\ pc = "done" => calls' = calls]_vars

\* C7 witness: the preferred model is unhealthy, another model was the primary
\* and failed, m2 answered, m3 was not called as a fallback.
C7_Witness ==
    /\ pc = "done"
    /\ request.preferred_model \in ModelIds
    /\ ~health_status[request.preferred_model]
    /\ model_to_use # request.preferred_model
    /\ Len(request.fallback_models) = 2
    /\ Len(calls) = 2
    /\ Len(errors) = 1
    /\ calls[2].model = request.fallback_models[1]
    /\ result.kind = "response"
    /\ result.model_used = request.fallback_models[1]

\* C8 (as claimed): the aggregate failure carries the error of the last
\* attempt made.
C8_AggregateCarriesLastError ==
    result.kind = "all_failed" => result.error = errors[Len(errors)]

\* C9: a request with an empty fallback list whose primary call failed has
\* ended with the aggregate failure, after the primary call alone.
C9_NoFallbacksFailsAtOnce ==
    (request.fallback_models = <<>> /\ errors # <<>>) =>
        /\ pc = "done"
        /\ result.kind = "all_failed"
        /\ Len(calls) = 1
        /\ calls[1].index = 0

\* C9 witness: the primary call failed for a request without fallbacks.
C9_Witness ==
    /\ request.fallback_models = <<>>
    /\ Len(errors) = 1
    /\ result.kind = "all_failed"

\* the stored rule with the given id
StoredRule(id) == rule_set.rules[CHOOSE i \in 1..Len(rule_set.rules) :
                                    rule_set.rules[i].rule_id = id]

\* the ids of the stored rules apply_input_rules has to consider
InputRuleIds ==
    {rule_set.rules[i].rule_id : i \in
        {k \in 1..Len(rule_set.rules) :
            /\ rule_set.rules[k].is_active
            /\ rule_set.rules[k].rule_type \in InputRuleTypes}}

\* the priorities of the listed rules never decrease
PriorityAscending(ids) ==
    \A i, j \in 1..Len(ids) :
        i < j => StoredRule(ids[i]).priority <= StoredRule(ids[j]).priority

\* C10: apply_input_rules on an active rule set evaluates each active input
\* rule once, in non-decreasing priority order, and the rules that fire fire in
\* non-decreasing priority order, however the rules are stored.
C10_InputRulesInPriorityOrder ==
    (applied = 1 /\ rule_set.is_active) =>
        /\ Range(eval_log) = InputRuleIds
        /\ Len(eval_log) = Cardinality(InputRuleIds)
        /\ PriorityAscending(eval_log)
        /\ PriorityAscending(rules_applied)

\* C10 witness: three rules stored in descending priority order were
\* evaluated, and two of them fired.
C10_Witness ==
    /\ applied = 1
    /\ Len(eval_log) = 3
    /\ Len(rule_set.rules) = 3
    /\ rule_set.rules[1].priority > rule_set.rules[2].priority
    /\ rule_set.rules[2].priority > rule_set.rules[3].priority
    /\ Len(rules_applied) >= 2

----------------------------------------------------------------------------
(* Claims C11..C20 *)

\* whether the i-th evaluated rule fired
Fired(i) == \E k \in 1..Len(rules_applied) : rules_applied[k] = eval_log[i]

\* the current request when the i-th evaluated rule is reached: the caller's
\* request as changed by the actions of every earlier rule that fired
CurrentBefore(i) ==
    IF i = 1 THEN request_at_call
    ELSE IF Fired(i - 1)
         THEN action_request(StoredRule(eval_log[i - 1]), tested_on[i - 1])
         ELSE tested_on[i - 1]

\* C11: in apply_input_rules each rule's condition is tested against the
\* current request, that is the caller's request as modified by every earlier
\* rule that fired, and its action is applied to that current request: the
\* request returned is the current request after the last rule.
C11_RulesSeeCurrentRequest ==
    (applied = 1 /\ rule_set.is_active) =>
        /\ Len(tested_on) = Len(eval_log)
        /\ \A i \in 1..Len(eval_log) : tested_on[i] = CurrentBefore(i)
        /\ rule_result = CurrentBefore(Len(eval_log) + 1)

\* C11 witness: a rule fired on a condition that is false of the caller's
\* request and true only of the request an earlier rule produced.
C11_Witness ==
    /\ applied = 1
    /\ \E i \in 2..Len(eval_log) :
            /\ Fired(i)
            /\ tested_on[i] # request_at_call
            /\ ~check_rule_condition(StoredRule(eval_log[i]), request_at_call)
            /\ check_rule_condition(StoredRule(eval_log[i]), tested_on[i])

\* C12: apply_input_rules leaves the caller's request object as it was
\* handed over, context map included, whichever rules fired.
C12_CallerRequestUnchanged ==
    applied = 1 => rule_request = request_at_call

\* C15: an apply_input_rules call hands at most one usage event to the
\* tracker: exactly one, tagged "input" and listing the ids of the rules that
\* fired in firing order, when a rule fired, and none when no rule fired.
C15_OneUsageEventPerCall ==
    applied = 1 =>
        /\ Len(usage_events) <= 1
        /\ rules_applied = <<>> => usage_events = <<>>
        /\ rules_applied # <<>> =>
                usage_events = <<[rule_set_id |-> rule_set.rule_set_id,
                                  rules_applied |-> rules_applied,
                                  phase |-> "input"]>>

\* C15 witness: two rules fired in one call, and one usage event lists both.
C15_Witness ==
    /\ applied = 1
    /\ Len(rules_applied) >= 2
    /\ Len(usage_events) = 1
    /\ usage_events[1].rules_applied = rules_applied

\* the object the condition of the call reads: the context for a context
\* condition, the response for a confidence condition, its target otherwise
ConditionReads ==
    CASE cond_call.condition.type = "context" -> "context"
      [] cond_call.condition.type = "confidence" -> "response"
      [] OTHER -> cond_call.condition.target

\* whether that object exists in the phase of the call
TargetAvailable ==
    CASE ConditionReads = "prompt" -> cond_call.phase = "input"
      [] ConditionReads = "context" ->
            cond_call.phase = "input" /\ cond_call.request.context # EmptyContext
      [] ConditionReads = "response" -> cond_call.phase = "output"

\* C13: _check_rule_condition returns False whenever the target of the
\* condition is not available in the phase of the call, for every condition
\* type and every condition value.
C13_UnavailableTargetIsFalse ==
    (cond_result # None /\ ~TargetAvailable) => cond_result = "False"

\* C16: apply_output_rules with a rule set in which no rule fires returns a
\* response equal by value to the response it was given, and applying it again
\* to that result returns an equal response once more.
C16_NoRuleFiredReturnsInput ==
    (applied >= 1 /\ usage_events = <<>>) => response_result = response_at_call

\* C16 witness: an active rule set was applied twice, rules were evaluated in
\* the second call, none fired in either call, and the response came back as
\* it was given.
C16_Witness ==
    /\ applied = 2
    /\ rule_set.is_active
    /\ Len(eval_log) >= 2
    /\ usage_events = <<>>
    /\ response_result = response_at_call
    /\ response_at_call.rules_applied # <<>>

\* a rule the claim says is rejected: its condition or its action lacks a type
\* field, or its condition type is outside the allow-list of its rule_type
MustBeRejected(rule) ==
    \/ "type" \notin DOMAIN rule.condition
    \/ "type" \notin DOMAIN rule.action
    \/ /\ rule.rule_type = "input_filter"
       /\ rule.condition.type \notin {"contains", "matches", "equals", "length",
                                      "context"}
    \/ /\ rule.rule_type = "output_filter"
       /\ rule.condition.type \notin {"contains", "matches", "equals", "length",
                                      "confidence"}
    \/ /\ rule.rule_type = "content_moderation"
       /\ rule.condition.type \notin {"contains", "matches", "banned_words",
                                      "sentiment"}

\* the step is a create_rule_set or update_rule_set call with such a rule
WritesInvalidRuleSet ==
    /\ store_call'.op \in {"create_rule_set", "update_rule_set"}
    /\ \E i \in 1..Len(store_call'.rule_set.rules) :
            MustBeRejected(store_call'.rule_set.rules[i])

\* C14: create_rule_set and update_rule_set reject with a validation error
\* any rule set holding a rule whose condition or action lacks a type field
\* or whose condition type is outside the allow-list of its rule_type, and the
\* rejected call leaves the store and the cache unchanged.
C14_InvalidRuleSetRejected ==
    [][WritesInvalidRuleSet =>
          /\ store_call'.outcome = "ValueError"
          /\ rule_store' = rule_store
          /\ rule_cache' = rule_cache]_vars

\* C14 witness: an update with a malformed rule was rejected while the store
\* and the cache held a rule set.
C14_Witness ==
    /\ store_call.op = "update_rule_set"
    /\ store_call.outcome = "ValueError"
    /\ \E i \in 1..Len(store_call.rule_set.rules) :
            "type" \notin DOMAIN store_call.rule_set.rules[i].condition
    /\ rule_store["rs1"] # <<>>
    /\ rule_cache["rs1"] # <<>>

\* C17: a rule set written by create_rule_set and then read by get_rule_set
\* comes back equal to the rule set that was written, from the cache and from
\* the store after the cache was emptied.
C17_CreateThenGetRoundTrip ==
    (store_call.op = "get_rule_set" /\ last_created # <<>>) =>
        store_call.returned = last_created

\* the call was priced under a per-token policy
PerToken(c) ==
    \/ c.fn = "calculate_pricing"
    \/ c.fn = "_calculate_cost" /\ InCatalog(c.model_id)
            /\ pricing_model(c.model_id) = "per_token"

\* the per-token input and output prices the call was priced with
InputPrice(c) ==
    IF c.fn = "calculate_pricing" THEN tracker_input_token_cost
    ELSE input_token_cost(c.model_id)

OutputPrice(c) ==
    IF c.fn = "calculate_pricing" THEN tracker_output_token_cost
    ELSE output_token_cost(c.model_id)

\* C18: under a per-token pricing policy the cost of (input_tokens,
\* output_tokens) is input_tokens*input_cost + output_tokens*output_cost, and
\* of two usages priced by the same function for the same model the one with
\* no fewer input tokens and no fewer output tokens costs no less.
C18_PerTokenCost ==
    PerToken(cost_call) =>
        /\ cost_call.cost = cost_call.input_tokens * InputPrice(cost_call)
                            + cost_call.output_tokens * OutputPrice(cost_call)
        /\ ( /\ prev_cost_call.fn = cost_call.fn
             /\ prev_cost_call.model_id = cost_call.model_id
             /\ prev_cost_call.input_tokens <= cost_call.input_tokens
             /\ prev_cost_call.output_tokens <= cost_call.output_tokens )
                => prev_cost_call.cost <= cost_call.cost

\* C18 witness: gpt-4 priced by _calculate_cost for two usages, the second
\* with more output tokens and a higher cost.
C18_Witness ==
    /\ cost_call.fn = "_calculate_cost"
    /\ prev_cost_call.fn = "_calculate_cost"
    /\ cost_call.model_id = "gpt-4"
    /\ prev_cost_call.model_id = "gpt-4"
    /\ prev_cost_call.input_tokens = cost_call.input_tokens
    /\ prev_cost_call.input_tokens > 0
    /\ prev_cost_call.output_tokens < cost_call.output_tokens
    /\ prev_cost_call.cost < cost_call.cost
    /\ cost_call.cost = cost_call.input_tokens * 300 + cost_call.output_tokens * 600

TerminalStatuses == {"COMPLETED", "FAILED", "CANCELLED"}

\* the status changes the claim allows: forward along None/PENDING, RUNNING,
\* terminal
ForwardStatus(old, new) ==
    \/ old = new
    \/ old \in {None, "PENDING"} /\ new = "RUNNING"
    \/ old = "RUNNING" /\ new \in TerminalStatuses

\* C19: the status of a workflow execution only moves forward, from not
\* started to RUNNING to COMPLETED, FAILED or CANCELLED, and once it is
\* COMPLETED, FAILED or CANCELLED no later step of execute_workflow or of a
\* node handler changes it.
C19_StatusOnlyMovesForward ==
    [][\A e \in ExecutionIds :
          /\ ForwardStatus(executions[e].status, executions'[e].status)
          /\ executions[e].status \in TerminalStatuses
                => executions'[e].status = executions[e].status]_vars

\* C19 witness: one execution returned COMPLETED and another returned FAILED,
\* after the steps that follow the terminal status.
C19_Witness ==
    \E e, f \in ExecutionIds :
        /\ executions[e].call = "returned" /\ executions[e].status = "COMPLETED"
        /\ executions[f].call = "returned" /\ executions[f].status = "FAILED"

\* the final state of e is persisted, with the status and the error
FinalStatePersisted(e) ==
    /\ workflow_executions[e] # None
    /\ workflow_executions[e] = [status |-> executions[e].status,
                                  error |-> executions[e].error]

\* a workflow_completed event of e with its status was published
CompletionPublished(e) ==
    \E k \in 1..Len(published) :
        /\ published[k].channel = "workflow_completed"
        /\ published[k].execution_id = e
        /\ published[k].status = executions[e].status

\* C20: when a node handler raised, execute_workflow has set the status to
\* FAILED with the error captured, and it does the bookkeeping of a
\* successful run: from the await of the completion event on the final state
\* is persisted and the execution is out of the registry, and when the call
\* has returned the workflow_completed event is published.
C20_HandlerFailureStillCompletes ==
    \A e \in ExecutionIds :
        /\ executions[e].raised =>
                /\ executions[e].status = "FAILED"
                /\ executions[e].error # None
                /\ executions[e].call \in {"publish", "returned"}
        /\ executions[e].call \in {"publish", "returned"} =>
                /\ FinalStatePersisted(e)
                /\ e \notin active_workflows
        /\ executions[e].call = "returned" => CompletionPublished(e)

\* what holds of execute_workflow after a handler raised: FAILED with the
\* error, event published, execution out of the registry
C20_FailureBookkeepingWithoutStore ==
    \A e \in ExecutionIds :
        /\ executions[e].raised =>
                /\ executions[e].status = "FAILED"
                /\ executions[e].error # None
                /\ executions[e].call \in {"publish", "returned"}
        /\ executions[e].call \in {"publish", "returned"} => e \notin active_workflows
        /\ executions[e].call = "returned" => CompletionPublished(e)

\* an execution whose send_message handler raised has returned FAILED, its
\* event is published, and nothing is stored for it
C20_FailedExecutionNotStored ==
    \E e \in ExecutionIds :
        /\ executions[e].raised
        /\ executions[e].at = "send"
        /\ executions[e].call = "returned"
        /\ CompletionPublished(e)
        /\ workflow_executions[e] = None

\* the positions in published of the workflow_completed events of e
CompletionEvents(e) ==
    {k \in 1..Len(published) :
        /\ published[k].channel = "workflow_completed"
        /\ published[k].execution_id = e}

\* C21: each workflow execution publishes exactly one workflow_completed
\* event: none while it is running, one once execute_workflow has returned,
\* never more than one, and the event carries the terminal status the
\* execution had reached before it was published.
C21_OneCompletionEvent ==
    \A e \in ExecutionIds :
        /\ Cardinality(CompletionEvents(e)) <= 1
        /\ executions[e].call = "returned" <=> CompletionEvents(e) # {}
        /\ executions[e].status \notin TerminalStatuses => CompletionEvents(e) = {}
        /\ \A k \in CompletionEvents(e) :
                /\ published[k].status = executions[e].status
                /\ published[k].status \in TerminalStatuses

\* C21 witness: two executions have returned, one COMPLETED and one FAILED,
\* and the channel holds one event for each with its status.
C21_Witness ==
    /\ Len(published) = 2
    /\ \E e, f \in ExecutionIds :
        /\ executions[e].call = "returned" /\ executions[e].status = "COMPLETED"
        /\ executions[f].call = "returned" /\ executions[f].status = "FAILED"
        /\ Cardinality(CompletionEvents(e)) = 1
        /\ Cardinality(CompletionEvents(f)) = 1

\* the nodes of the workflow of e that come after its human_approval node
DownstreamOfApproval(e) ==
    IF executions[e].workflow_id = "notify" THEN {"send"} ELSE {}

\* an /approve request for e was answered with success
ApproveAccepted(e) ==
    /\ route_result.route = "approve"
    /\ route_result.execution_id = e
    /\ route_result.status_code = 200

\* C22: when a human_approval node was reached, approval_pending is true and
\* the execution is suspended: as long as no approve decision for the
\* execution was accepted, it has no terminal status and no node downstream
\* of the approval node has executed.
C22_ApprovalSuspendsExecution ==
    \A e \in ExecutionIds :
        /\ (\E i \in 1..Len(executions[e].visited) : executions[e].visited[i] = "approve")
                => executions[e].approval_pending
        /\ executions[e].approval_pending /\ ~ApproveAccepted(e) =>
                /\ executions[e].status \notin TerminalStatuses
                /\ \A i \in 1..Len(executions[e].visited) :
                        executions[e].visited[i] \notin DownstreamOfApproval(e)

\* an execution passed its human_approval node, ran the send node and
\* completed, although every /approve request was answered 400
C22_RunsPastApproval ==
    \E e \in ExecutionIds :
        /\ executions[e].approval_pending
        /\ executions[e].visited = <<"start", "approve", "send">>
        /\ executions[e].status = "COMPLETED"
        /\ route_result.status_code # 200

\* node id occurs in the nodes executed by e
Executed(e, id) ==
    \E i \in 1..Len(executions[e].visited) : executions[e].visited[i] = id

\* C23: the branch taken after the condition node "check" matches its
\* configured expression "{score} > 70" with the score of the trigger data
\* substituted: when the score is above 70 the true branch (send) executes
\* and the false branch (update) does not, and otherwise the false branch
\* executes and the true branch does not.
C23_BranchMatchesExpression ==
    \A e \in ExecutionIds :
        executions[e].workflow_id = "qualify" =>
            /\ Executed(e, "send") => executions[e].score > 70
            /\ Executed(e, "update") => ~(executions[e].score > 70)
            /\ executions[e].status = "COMPLETED" =>
                    IF executions[e].score > 70
                    THEN Executed(e, "send") ELSE Executed(e, "update")

\* an execution with score 85 ran the condition node and then update_lead,
\* the false branch
C23_HighScoreTakesFalseBranch ==
    \E e \in ExecutionIds :
        /\ executions[e].workflow_id = "qualify"
        /\ executions[e].score = 85
        /\ executions[e].visited = <<"start", "score", "check", "update">>

\* C24: when a node handler has recorded an error in state.error, the
\* terminal status of the execution is FAILED: no execution has the status
\* COMPLETED while its error is set.
C24_RecordedErrorMeansFailed ==
    \A e \in ExecutionIds :
        executions[e].status = "COMPLETED" => executions[e].error = None

\* an execution whose condition node recorded an evaluation error has
\* returned COMPLETED, and its event says COMPLETED
C24_CompletedWithError ==
    \E e \in ExecutionIds :
        /\ executions[e].call = "returned"
        /\ executions[e].status = "COMPLETED"
        /\ executions[e].error = "Condition evaluation error"
        /\ \E k \in CompletionEvents(e) : published[k].status = "COMPLETED"

\* the last request answered was the stop of execution e
StopRequested(e) ==
    /\ route_result.route = "stop"
    /\ route_result.execution_id = e

\* C26: an execution that was stopped externally is never resumed: once
\* stop_execution(e) was called for a started execution its status is
\* CANCELLED, no further node of e executes, and a later approve call for e
\* is rejected.
C26_StoppedExecutionNeverResumes ==
    [][\A e \in ExecutionIds :
          /\ StopRequested(e) /\ executions[e].call = "invoke" =>
                /\ executions[e].status = "CANCELLED"
                /\ executions'[e].visited = executions[e].visited
          /\ StopRequested(e) /\ route_result'.route = "approve"
                /\ route_result'.execution_id = e
                => route_result'.status_code # 200]_vars

\* the stop of a running execution was answered 400 and the execution went
\* on to run its nodes and to complete
C26_RunsOnAfterStop ==
    \E e \in ExecutionIds :
        /\ StopRequested(e)
        /\ route_result.status_code = 400
        /\ executions[e].status = "COMPLETED"
        /\ executions[e].visited = <<"start", "approve", "send">>

\* C25: every execution started by execute_workflow eventually has a terminal
\* status and its completion event published, given that every handler call
\* returns or raises, whatever the workflow graph, graphs with a cycle
\* included.
C25_EveryExecutionTerminates ==
    \A e \in ExecutionIds :
        (executions[e].call = "invoke") ~>
            (/\ executions[e].call = "returned"
             /\ executions[e].status \in TerminalStatuses
             /\ CompletionEvents(e) # {})

\* the same for the executions of the workflows without a cycle
C25_AcyclicExecutionTerminates ==
    \A e \in ExecutionIds :
        (executions[e].call = "invoke" /\ executions[e].workflow_id # "remind") ~>
            (/\ executions[e].call = "returned"
             /\ executions[e].status \in TerminalStatuses
             /\ CompletionEvents(e) # {})

\* an execution of the workflow with the cycle is at the message node for the
\* second time, after the delay node sent it back
C25_SecondTimeAround ==
    \E e \in ExecutionIds :
        /\ executions[e].workflow_id = "remind"
        /\ executions[e].call = "invoke"
        /\ executions[e].at = "message"
        /\ executions[e].visited = <<"start", "message", "wait">>

\* C27: in every stream of generate_stream the k-th chunk delivered to the
\* caller, counting from 0, has chunk_id k.
C27_ChunkIdsSequential ==
    \A k \in 1..Len(delivered) : delivered[k].chunk_id = k - 1

\* C27 witness: an Ollama stream skipped an upstream line and has delivered
\* three chunks, the last one the final chunk.
C27_Witness ==
    /\ stream.provider = "ollama"
    /\ stream.state = "done"
    /\ stream.received = 3
    /\ Len(delivered) = 3
    /\ delivered[3].chunk_id = 2

\* the positions of the chunks delivered with is_final true
FinalChunks == {k \in 1..Len(delivered) : delivered[k].is_final}

\* C28: a stream of generate_stream that ended normally holds exactly one
\* chunk with is_final true, that chunk is its last chunk, and it carries the
\* model id and the aggregate token estimate.
C28_OneFinalChunkLast ==
    stream.state = "done" =>
        /\ FinalChunks = {Len(delivered)}
        /\ delivered[Len(delivered)].model_used = <<stream.model_id>>
        /\ delivered[Len(delivered)].total_tokens # <<>>

\* the same for the streams of the OpenAI adapter
C28_OpenAIOneFinalChunkLast ==
    stream.state = "done" /\ stream.provider = "openai" =>
        /\ FinalChunks = {Len(delivered)}
        /\ delivered[Len(delivered)].model_used = <<stream.model_id>>
        /\ delivered[Len(delivered)].total_tokens # <<>>

\* an Ollama stream ended normally with two final chunks: the chunk of the
\* line that said done, and the final chunk
C28_TwoFinalChunks ==
    /\ stream.provider = "ollama"
    /\ stream.state = "done"
    /\ Cardinality(FinalChunks) = 2

\* the most recent RetainedSamples samples of a list of response times
MostRecent(times) ==
    IF Len(times) > RetainedSamples
    THEN SubSeq(times, Len(times) - RetainedSamples + 1, Len(times))
    ELSE times

\* C29: after any sequence of generate calls, served by the primary model or
\* by a fallback model, the response times retained for a model are at most
\* 100 samples, and they are the most recent ones: a call that records a
\* time leaves the most recent 100 of the old list with the new time.
C29_RetainsLastHundred ==
    [][\A m \in ModelIds :
          /\ Len(response_times'[m]) <= RetainedSamples
          /\ response_times'[m] # response_times[m] =>
                \E t \in Latencies :
                    response_times'[m] = MostRecent(Append(response_times[m], t))]_vars

\* the same for the times recorded by a primary success
C29_PrimaryRetainsLastHundred ==
    [][\A m \in ModelIds :
          pc = "primary" =>
              /\ Len(response_times'[m]) <= RetainedSamples
              /\ response_times'[m] # response_times[m] =>
                    \E t \in Latencies :
                        response_times'[m] = MostRecent(Append(response_times[m], t))]_vars

\* a model that served a request as a fallback holds 101 response times
C29_FallbackExceedsLimit ==
    \E m \in ModelIds :
        /\ Len(response_times[m]) = RetainedSamples + 1
        /\ result.kind = "response"
        /\ result.model_used = m
        /\ fb_index > 0

\* C30: a model id that is in the catalog stays in the catalog: no health
\* check, configure_model call or reload_models call, whatever the providers
\* list or fail to list, removes it.
C30_CatalogNeverShrinks ==
    [][\A m \in ModelIds : InCatalog(m) => m \in Range(catalog')]_vars

\* gpt-4 was in the catalog, is out of it after a reload in which the OpenAI
\* listing failed, and its health entry is still there
C30_ModelGoneAfterReload ==
    /\ ~InCatalog("gpt-4")
    /\ InCatalog("llama2")
    /\ ~health_status["gpt-4"]
    /\ ~is_active["gpt-4"]

----------------------------------------------------------------------------
(* Claims C31..C40 *)

\* whether applying the action of the i-th evaluated rule raised: its
\* condition held of the request it was tested on and its action raises
Raised(i) ==
    /\ check_rule_condition(StoredRule(eval_log[i]), tested_on[i])
    /\ action_raises(StoredRule(eval_log[i]))

\* C31: a rule whose action raises is skipped: the next rule is tested on the
\* request from before the failing rule (the returned request is that one when
\* the failing rule is the last), the failing rule's id is not among the rules
\* applied, every selected rule is still evaluated and apply_input_rules
\* returns a request.
C31_FailingRuleSkipped ==
    (applied = 1 /\ rule_set.is_active) =>
        /\ Len(eval_log) = Len(select_rules(rule_set.rules, InputRuleTypes))
        /\ rule_result # NoRuleRequest
        /\ \A i \in 1..Len(eval_log) :
                Raised(i) =>
                    /\ ~Fired(i)
                    /\ i < Len(eval_log) => tested_on[i + 1] = tested_on[i]
                    /\ i = Len(eval_log) => rule_result = tested_on[i]

\* C31 witness: a rule's action raised and a later rule fired on the request
\* the failing rule left
C31_Witness ==
    /\ applied = 1
    /\ \E i \in 1..Len(eval_log) :
            /\ Raised(i)
            /\ \E j \in (i + 1)..Len(eval_log) :
                    Fired(j) /\ rule_result # tested_on[i]

\* C32: after create_rule_set or update_rule_set has returned for an id, the
\* cache and the store both hold a rule set under it; so, with the calls run
\* one at a time, every id the cache holds is an id the store holds.
C32_CacheWithinStore ==
    /\ \A id \in StoreIds : rule_cache[id] # <<>> => rule_store[id] # <<>>
    /\ (store_call.op \in {"create_rule_set", "update_rule_set"}
            /\ store_call.outcome = "returned")
        => /\ rule_cache[store_call.rule_set_id] # <<>>
           /\ rule_store[store_call.rule_set_id] # <<>>

\* update_rule_set has returned for an id the store has no row for, and the
\* cache holds the rule set
C32_CachedWithoutRow ==
    /\ store_call.op = "update_rule_set"
    /\ store_call.outcome = "returned"
    /\ rule_cache[store_call.rule_set_id] # <<>>
    /\ rule_store[store_call.rule_set_id] = <<>>

\* C33: create_workflow_graph fails on a workflow definition without a
\* trigger node and on one with more than one: an execution has a graph, and
\* has started, only when its workflow has exactly one trigger node, and that
\* node is where it started.
C33_ExactlyOneTrigger ==
    \A e \in ExecutionIds :
        (e \in active_workflows
            \/ executions[e].call \in {"invoke", "publish", "returned"})
        => /\ Len(trigger_nodes(executions[e].workflow_id)) = 1
           /\ executions[e].visited # <<>>
                => executions[e].visited[1]
                        = trigger_nodes(executions[e].workflow_id)[1].id

\* an execution of the workflow with two trigger nodes ran to completion
C33_TwoTriggersCompleted ==
    \E e \in ExecutionIds :
        /\ executions[e].workflow_id = "relay"
        /\ executions[e].status = "COMPLETED"
        /\ executions[e].visited = <<"start", "relay", "send">>

\* the human_approval nodes execution e has gone through
ApprovalNodesReached(e) ==
    {executions[e].visited[i] : i \in
        {k \in 1..Len(executions[e].visited) :
            node_of(executions[e].workflow_id, executions[e].visited[k]).type
                = "human_approval"}}

\* C34: the pending-approval record written when execution e reaches
\* human_approval node n is stored under (e, n) with n the id of that node,
\* so two approval nodes of one execution leave two records.
C34_ApprovalKeyedByNode ==
    \A e \in ExecutionIds :
        /\ \A n \in ApprovalNodesReached(e) : <<e, n>> \in approvals
        /\ Cardinality({a \in approvals : a[1] = e})
                = Cardinality(ApprovalNodesReached(e))

\* an execution went through two approval nodes and the store holds one
\* record for it, under the empty node id
C34_SecondApprovalOverwrites ==
    \E e \in ExecutionIds :
        /\ ApprovalNodesReached(e) = {"approve", "confirm"}
        /\ {a \in approvals : a[1] = e} = {<<e, "">>}

\* C35: the request id on a response is unique: two different generate calls,
\* also two that start at the same clock millisecond, never get the same
\* request_id.
C35_RequestIdsUnique ==
    \A c, d \in CallIds :
        (c # d /\ stamped[c].at = "returned" /\ stamped[d].at = "returned")
            => stamped[c].request_id # stamped[d].request_id

\* two calls that read the clock in the same millisecond both returned
C35_SameMillisecond ==
    \E c, d \in CallIds :
        /\ c # d
        /\ stamped[c].at = "returned"
        /\ stamped[d].at = "returned"
        /\ stamped[c].request_id = stamped[d].request_id

\* C36: once delete_rule_set(X) has completed, no get_rule_set(X) that begins
\* afterwards returns a rule set, also when another get_rule_set(X) was
\* suspended on its store read while the delete ran.
C36_NoRuleSetAfterDelete ==
    \A g \in GetIds :
        (gets[g].at = "returned" /\ gets[g].after_delete)
            => gets[g].returned = <<>>

\* a get_rule_set that began before the delete was resumed after it, and a
\* get_rule_set that began after the delete returned the rule set
C36_DeletedRuleSetServed ==
    \E g, h \in GetIds :
        /\ gets[g].at = "returned" /\ ~gets[g].after_delete
        /\ gets[g].returned # <<>>
        /\ gets[h].at = "returned" /\ gets[h].after_delete
        /\ gets[h].returned = gets[g].returned
        /\ rule_store[gets[h].rule_set_id] = <<>>

\* the models that were active and healthy before the reload under way and
\* that their provider lists again in it
RelistedModels == reload.before \cap Range(reload.o \o reload.l)

\* C37: a generate call that arrives while reload_models is suspended on a
\* provider call finds every model that was active and healthy before the
\* reload and is listed again by its provider, and does not fail for want of
\* an available model when there is such a model.
C37_ReloadKeepsModelsAvailable ==
    [][(reload.at # "idle" /\ started' = started + 1 /\ RelistedModels # {})
        => /\ result'.kind # "no_models"
           /\ RelistedModels \subseteq Range(available_models)]_vars

\* a generate call found no model while the reload was waiting for the
\* provider that goes on to list gpt-4 again
C37_NoModelsDuringReload ==
    /\ reload.at = "openai"
    /\ "gpt-4" \in RelistedModels
    /\ result.kind = "no_models"
    /\ catalog = <<>>

\* C38: the usage record written for a generation request carries the cost
\* the orchestrator computed and stamped on the response of that request.
C38_RecordCarriesResponseCost ==
    last_response.record # 0 =>
        usage_records[last_response.record].estimated_cost
            = last_response.estimated_cost

\* a gpt-4 response with a cost above zero whose usage record has cost zero
C38_RecordCostZero ==
    /\ last_response.model_used = "gpt-4"
    /\ last_response.estimated_cost > 0
    /\ usage_records[last_response.record].estimated_cost = 0

\* C40: after track_usage for a user has completed, the next get_user_usage
\* of that user includes the new record: the report counts every record
\* stored for the user when it was asked for, whether or not a report had
\* been cached before the write.
C40_ReportIncludesNewRecord ==
    report.user_id # None => report.total_requests = report.stored

\* a report cached before a record was written was returned after the write
C40_StaleReportReturned ==
    /\ report.user_id = "u1"
    /\ report.total_requests = 0
    /\ report.stored = 1
    /\ usage_cache[usage_key("u1")] = <<>>

\* C39: variables.message_sent of an execution is true only if the CRM
\* service accepted the message: it is not set to true when the send_message
\* call of the CRM integration fails.
C39_MessageSentMeansAccepted ==
    \A e \in ExecutionIds : executions[e].message_sent => executions[e].crm_accepted

\* an execution failed at its send_message node with message_sent true and no
\* message taken by the CRM service
C39_SentFlagOnFailure ==
    \E e \in ExecutionIds :
        /\ executions[e].status = "FAILED"
        /\ node_of(executions[e].workflow_id, executions[e].at).type = "send_message"
        /\ executions[e].message_sent
        /\ ~executions[e].crm_accepted

====
